---- MODULE Spec2Model ----
(***************************************************************************)
(* Dispatch server (edpmt/transparent.py) and hardware interface factory   *)
(* (edpmt/hardware/factory.py) of EDPMT.                                   *)
(*                                                                         *)
(* The server runs on one asyncio event loop: a handler runs without       *)
(* interruption until it reaches an await that really suspends.  In the    *)
(* request path these are: waiting for the next frame / the request body,  *)
(* asyncio.sleep in audio_play, and sending the response.  The interfaces  *)
(* of hardware.py contain no await of their own, so a call such as         *)
(* "await interface.initialize()" runs to completion inside the step that  *)
(* started it.  The server never asks a handle whether it is a real driver *)
(* or a simulator, so the model does not record it.                        *)
(***************************************************************************)
EXTENDS Integers, Sequences, FiniteSets, TLC

VARIABLES
    handles,      \* self._gpio, self._i2c, self._spi, self._uart : class -> handle, 0 is None
    created,      \* per class, how many handles the _init_* methods have built
    stats,        \* self.stats : messages_sent, messages_received, errors
    ws,           \* per persistent connection: the handler coroutine and its channel
    http,         \* per HTTP exchange: the handler coroutine, its request and response
    issued,       \* requests the clients have sent so far
    fac,          \* one run of HardwareInterfaceFactory.create_all_interfaces
    srv,          \* the EDPMTransparent object: transport, TLS, listener, environment
    cli,          \* one EDPMClient: self.ws, frames not yet read, its execute() calls
    tlsb,         \* one TLS bootstrap: _setup_tls, the listener, a client's context
    sim,          \* the simulators: I2C memory, UART buffers, cleanup() calls
    msgs          \* Message objects built in one process, and the clock they read

vars == <<handles, created, stats, ws, http, issued, fac, srv, cli, tlsb, sim, msgs>>

-----------------------------------------------------------------------------
(* Bounds *)

MaxReqs == 2          \* requests all clients together send
NumConns == 1         \* persistent connections
NumHttp == 1          \* concurrent HTTP exchanges
NumCalls == 2         \* execute() calls of the client

Conns == 1..NumConns
HttpSlots == 1..NumHttp
Calls == 1..NumCalls

-----------------------------------------------------------------------------
(* Message envelope, transparent.py:38-64 *)

NoId == 0
GenIds == {90}        \* values _generate_id can yield (time based)

HwClasses == {"gpio", "i2c", "spi", "uart"}

\* the targets _default_handler has a branch for
KnownTargets == {"gpio", "i2c", "spi", "uart", "audio"}

\* the actions each branch of _default_handler compares against
Vocabulary(target) ==
    CASE target = "gpio"  -> {"set", "get", "pwm"}
      [] target = "i2c"   -> {"scan", "read", "write"}
      [] target = "spi"   -> {"transfer"}
      [] target = "uart"  -> {"write", "read"}
      [] target = "audio" -> {"play"}
      [] OTHER            -> {}

\* Requests the clients send.  pargs = "none" is an envelope without params;
\* fault = TRUE is a request whose hardware operation raises (an I/O error of
\* a real driver, a device address outside the roster of I2CSimulator);
\* hasId = FALSE is an envelope that leaves the id to the server; defect says
\* what is wrong with the frame itself: "json" is text that is no JSON,
\* "field" an object with a key Message does not have, "missing" an object
\* without target.
ReqShapes ==
    { [action |-> "set",        target |-> "gpio",        pargs |-> "full", fault |-> FALSE, hasId |-> TRUE,  defect |-> "none"],
      [action |-> "frobnicate", target |-> "gpio",        pargs |-> "full", fault |-> FALSE, hasId |-> TRUE,  defect |-> "none"],
      [action |-> "set",        target |-> "nonexistent", pargs |-> "full", fault |-> FALSE, hasId |-> TRUE,  defect |-> "none"],
      [action |-> "read",       target |-> "i2c",         pargs |-> "full", fault |-> TRUE,  hasId |-> TRUE,  defect |-> "none"],
      [action |-> "play",       target |-> "audio",       pargs |-> "none", fault |-> FALSE, hasId |-> FALSE, defect |-> "none"],
      [action |-> "",           target |-> "",            pargs |-> "none", fault |-> FALSE, hasId |-> FALSE, defect |-> "json"],
      [action |-> "set",        target |-> "gpio",        pargs |-> "full", fault |-> FALSE, hasId |-> TRUE,  defect |-> "field"],
      [action |-> "set",        target |-> "",            pargs |-> "full", fault |-> FALSE, hasId |-> TRUE,  defect |-> "missing"] }

NoMsg == [action |-> "", target |-> "", pargs |-> "", fault |-> FALSE, defect |-> "none", id |-> NoId, seq |-> 0]

\* Message.__post_init__: a missing id is generated, a given id is kept
PostInit(data, gen) == [data EXCEPT !.id = IF data.id = NoId THEN gen ELSE data.id]

-----------------------------------------------------------------------------
(* Hardware abstraction layer of the server, transparent.py:272-497 *)

NoHandle == 0

\* the test of the live handle left out: every request builds a handle
NeedsInitAlways(h) == TRUE

\* transparent.py:276 "if not self._gpio": the handle is created on first use only
NeedsInit(h) == h = NoHandle

\* The value a wrapper returns when the handle's call went through
OkResult(target, action) ==
    CASE target = "gpio" /\ action = "get"      -> "value"
      [] target = "i2c"  /\ action = "scan"     -> "devices"
      [] target = "i2c"  /\ action = "read"     -> "bytes"
      [] target = "spi"  /\ action = "transfer" -> "bytes"
      [] target = "uart" /\ action = "read"     -> "bytes"
      [] OTHER                                  -> "True"

\* The value a wrapper returns from its "except Exception" branch
Sentinel(target, action) ==
    CASE target = "gpio" /\ action = "get"      -> "-1"
      [] target = "i2c"  /\ action = "scan"     -> "[]"
      [] target = "i2c"  /\ action = "read"     -> "bytes-empty"
      [] target = "spi"  /\ action = "transfer" -> "bytes-empty"
      [] target = "uart" /\ action = "read"     -> "bytes-empty"
      [] OTHER                                  -> "False"

\* Does the body of the wrapper's try block raise?
\*  - the handle raises (hardware.py:204-206, 254-255, 265-266);
\*  - params.get() handed None to a call that needs a value;
\*  - the log line calls data.hex() on the list a JSON request carries.
TryRaises(msg) ==
    \/ msg.fault
    \/ msg.pargs = "none" /\ <<msg.target, msg.action>> \in
           {<<"i2c", "read">>, <<"i2c", "write">>, <<"spi", "transfer">>, <<"uart", "write">>}
    \/ <<msg.target, msg.action>> \in
           {<<"i2c", "write">>, <<"spi", "transfer">>, <<"uart", "write">>}

\* gpio_set ... uart_read after the lazy creation: [result, errs]
Wrapper(msg) ==
    IF TryRaises(msg)
    THEN [result |-> Sentinel(msg.target, msg.action), errs |-> 1]
    ELSE [result |-> OkResult(msg.target, msg.action), errs |-> 0]

\* the chain without its final raise: an unknown target ends like an unknown action
DefaultHandlerNoRaise(msg) ==
    IF msg.target \in KnownTargets /\ msg.action \in Vocabulary(msg.target)
    THEN IF msg.target = "gpio" /\ msg.pargs = "none"
         THEN [exc |-> TRUE, error |-> <<"'pin'">>, result |-> "absent",
               errs |-> 0, lazy |-> FALSE, sleeps |-> FALSE]
         ELSE IF msg.target = "audio"
         THEN [exc |-> FALSE, error |-> <<>>, result |-> "True",
               errs |-> 0, lazy |-> FALSE, sleeps |-> TRUE]
         ELSE [exc |-> FALSE, error |-> <<>>, result |-> Wrapper(msg).result,
               errs |-> Wrapper(msg).errs, lazy |-> TRUE, sleeps |-> FALSE]
    ELSE [exc |-> FALSE, error |-> <<>>, result |-> "None",
          errs |-> 0, lazy |-> FALSE, sleeps |-> FALSE]

\* transparent.py:202-270
\*   exc    : the handler raises, error is the text of the exception
\*   lazy   : a wrapper ran, so the handle of the class is created if missing
\*   sleeps : audio_play suspends in asyncio.sleep before it returns
DefaultHandler(msg) ==
    IF msg.target \in KnownTargets
    THEN IF msg.action \in Vocabulary(msg.target)
         THEN IF msg.target = "gpio" /\ msg.pargs = "none"
              \* params['pin'] raises KeyError before any wrapper is called
              THEN [exc |-> TRUE, error |-> <<"'pin'">>, result |-> "absent",
                    errs |-> 0, lazy |-> FALSE, sleeps |-> FALSE]
              ELSE IF msg.target = "audio"
              THEN [exc |-> FALSE, error |-> <<>>, result |-> "True",
                    errs |-> 0, lazy |-> FALSE, sleeps |-> TRUE]
              ELSE [exc |-> FALSE, error |-> <<>>, result |-> Wrapper(msg).result,
                    errs |-> Wrapper(msg).errs, lazy |-> TRUE, sleeps |-> FALSE]
         \* no inner branch matches: the function ends without a return
         ELSE [exc |-> FALSE, error |-> <<>>, result |-> "None",
               errs |-> 0, lazy |-> FALSE, sleeps |-> FALSE]
    ELSE [exc |-> TRUE,
          error |-> <<"Unknown target/action: ", msg.target, "/", msg.action>>,
          result |-> "absent", errs |-> 0, lazy |-> FALSE, sleeps |-> FALSE]

\* the text of the exception json.loads / Message(**data) raises on a frame
ParseError(frame) ==
    CASE frame.defect = "json"    -> <<"Expecting value: line 1 column 1 (char 0)">>
      [] frame.defect = "field"   -> <<"__init__() got an unexpected keyword argument ", "'extra'">>
      [] frame.defect = "missing" -> <<"__init__() missing 1 required positional argument: ", "'target'">>
      [] OTHER                    -> <<>>

\* a frame that does not parse is handled as an ordinary request
OutcomeUnparsed(msg) == DefaultHandler(msg)

\* lines 573-580 and 610-616: request.json() / Message.from_json raise before
\* execute is called, otherwise the handler decides
Outcome(msg) ==
    IF msg.defect # "none"
    THEN [exc |-> TRUE, error |-> ParseError(msg), result |-> "absent",
          errs |-> 0, lazy |-> FALSE, sleeps |-> FALSE]
    ELSE DefaultHandler(msg)

\* transparent.py:193-194: bytes become a list before serialization
BytesToList(result) ==
    CASE result = "bytes"       -> "list"
      [] result = "bytes-empty" -> "[]"
      [] OTHER                  -> result

\* transparent.py:196-198, reached only when the handler returned
CountMessage(st) ==
    [st EXCEPT !.messages_sent = @ + 1, !.messages_received = @ + 1]

\* handles after execute(msg): "self._gpio = await self._init_gpio()" at the
\* head of each wrapper; _init_* returns a new interface, real or simulated
HandlesAfter(msg) ==
    IF Outcome(msg).lazy /\ NeedsInit(handles[msg.target])
    THEN [handles EXCEPT ![msg.target] = created[msg.target] + 1]
    ELSE handles

CreatedAfter(msg) ==
    IF Outcome(msg).lazy /\ NeedsInit(handles[msg.target])
    THEN [created EXCEPT ![msg.target] = @ + 1]
    ELSE created

\* stats after the part of execute(msg) that runs before any suspension
StatsAfter(msg) ==
    LET o == Outcome(msg)
        e == [stats EXCEPT !.errors = @ + o.errs]
    IN  IF o.exc \/ o.sleeps THEN e ELSE CountMessage(e)

-----------------------------------------------------------------------------
(* Responses, transparent.py:582-592 and 618-627 *)

NoResp == [success |-> FALSE, result |-> "absent", id |-> NoId, error |-> <<>>, status |-> 0]

SuccessResponse(result, message) ==
    [success |-> TRUE, result |-> BytesToList(result), id |-> message.id,
     error |-> <<>>, status |-> 200]

\* the except branch builds the response from the exception alone
FailureResponse(error) ==
    [success |-> FALSE, result |-> "absent", id |-> NoId, error |-> error, status |-> 400]

ResponseFor(msg, o) ==
    IF o.exc THEN FailureResponse(o.error) ELSE SuccessResponse(o.result, msg)

\* "word in text" for the text of an exception
Contains(text, word) == \E i \in 1..Len(text) : text[i] = word

\* the envelope a client builds from a shape; k counts its requests on the
\* channel, the id is a stamp no other request of the channel carries
Envelope(shape, k) ==
    [action |-> shape.action, target |-> shape.target, pargs |-> shape.pargs,
     fault |-> shape.fault, defect |-> shape.defect,
     id |-> IF shape.hasId THEN k ELSE NoId, seq |-> k]

-----------------------------------------------------------------------------
(* Construction and life cycle of the server, transparent.py:73-129, 501-566 *)

Auto == "auto"
Transports == {"local", "network", "browser"}
Platforms == {"cpython", "pyodide"}

\* os.environ.get(name): "unset" stands for None
EnvValues == {"unset", "1"}
Envs == [remote : EnvValues, port : EnvValues]
Truthy(v) == v # "unset"

\* str(type(os)): os is a module on every platform
TypeOfOsText(platform) == <<"<class '", "module", "'>">>

\* the platform test recognises a browser runtime
DetectTransportByPlatform(platform, env) ==
    IF platform = "pyodide" THEN "browser"
    ELSE IF Truthy(env.remote) \/ Truthy(env.port) THEN "network"
    ELSE "local"

\* transparent.py:118-129
DetectTransport(platform, env) ==
    IF Contains(TypeOfOsText(platform), "pyodide") THEN "browser"
    ELSE IF Truthy(env.remote) \/ Truthy(env.port) THEN "network"
    ELSE "local"

\* the argument is stored as given, Auto included
ResolveTransportUnresolved(transport, platform, env) == transport

\* transparent.py:88
ResolveTransport(transport, platform, env) ==
    IF transport = Auto THEN DetectTransport(platform, env) ELSE transport

\* the tls argument is consulted for the network transport only
TlsEnabledNetworkOnly(tls, transport) ==
    IF transport = "network" THEN tls # "off" ELSE FALSE

\* transparent.py:89; tls is "none" (None), "on" or "off"
TlsEnabled(tls, transport) ==
    IF tls # "none" THEN tls = "on" ELSE transport = "network"

NoHealth == [transport |-> "", tls |-> FALSE]

\* __init__: certOk says whether _setup_tls gets its certificate; if it does
\* not, the constructor raises and there is no server
Construct(transport, tls, platform, env, certOk) ==
    LET t == ResolveTransport(transport, platform, env)
        e == TlsEnabled(tls, t)
    IN  [phase |-> IF e /\ ~certOk THEN "failed" ELSE "constructed",
         transport |-> t,
         tls_enabled |-> e,
         ssl_context |-> e /\ certOk,
         listener |-> "none",
         health |-> NoHealth,
         cleaned |-> {},
         env |-> env,
         given |-> [transport |-> transport, tls |-> tls, platform |-> platform, env |-> env]]

\* transparent.py:538
ListenerContext(s) == s.tls_enabled /\ s.ssl_context

\* start_server: each of the three branches ends in _start_network_server
Listening(s) ==
    IF s.transport \in Transports
    THEN [s EXCEPT !.phase = "listening",
                   !.listener = IF ListenerContext(s) THEN "tls" ELSE "plain"]
    ELSE s

\* the server the request handlers of this model run in: EDPMTransparent()
\* with no argument and no environment indicator, started
DefaultServer ==
    Listening(Construct(Auto, "none", "cpython", [remote |-> "unset", port |-> "unset"], TRUE))

-----------------------------------------------------------------------------
(* Persistent channel, transparent.py:594-632 *)

\* the newest frame is served first
NextFrameNewest(inbox) == inbox[Len(inbox)]

\* "async for msg in ws": frames are taken in arrival order
NextFrame(inbox) == Head(inbox)

WsInit ==
    [state |-> "new", peer |-> "up", pc |-> "recv", inbox |-> <<>>,
     nsent |-> 0, ndeliv |-> 0, cur |-> NoMsg, resp |-> NoResp]

\* a frame on the channel carries no HTTP status
WsFrame(resp) == [resp EXCEPT !.status = 0]

\* ws.prepare(request) returns: the handler enters its receive loop
WsConnect(c) ==
    /\ srv.phase = "listening"
    /\ ws[c].state = "new"
    /\ ws' = [ws EXCEPT ![c].state = "open"]
    /\ UNCHANGED <<handles, created, stats, http, issued, fac, srv, cli, tlsb, sim, msgs>>

\* the client writes one envelope to the channel
WsClientSend(c) ==
    /\ ws[c].state = "open"
    /\ ws[c].peer = "up"
    /\ issued < MaxReqs
    /\ \E shape \in ReqShapes :
         ws' = [ws EXCEPT ![c].inbox = Append(@, Envelope(shape, ws[c].nsent + 1)),
                          ![c].nsent = @ + 1]
    /\ issued' = issued + 1
    /\ UNCHANGED <<handles, created, stats, http, fac, srv, cli, tlsb, sim, msgs>>

\* lines 607-616 and, when execute raised, the head of the except branch:
\* one frame is parsed and executed up to the first suspension
WsReceive(c) ==
    /\ ws[c].state = "open"
    /\ ws[c].pc = "recv"
    /\ ws[c].inbox # <<>>
    /\ \E gen \in GenIds :
         LET message == PostInit(NextFrame(ws[c].inbox), gen)
             o == Outcome(message)
         IN  /\ handles' = HandlesAfter(message)
             /\ created' = CreatedAfter(message)
             /\ stats' = StatsAfter(message)
             /\ ws' = [ws EXCEPT ![c].inbox = Tail(@),
                                 ![c].cur = message,
                                 ![c].pc = IF o.sleeps THEN "sleep" ELSE "send",
                                 ![c].resp = IF o.sleeps THEN NoResp
                                             ELSE WsFrame(ResponseFor(message, o))]
    /\ UNCHANGED <<http, issued, fac, srv, cli, tlsb, sim, msgs>>

\* asyncio.sleep in audio_play is over: execute finishes (lines 193-200)
WsWake(c) ==
    /\ ws[c].state = "open"
    /\ ws[c].pc = "sleep"
    /\ stats' = CountMessage(stats)
    /\ ws' = [ws EXCEPT ![c].pc = "send",
                        ![c].resp = WsFrame(SuccessResponse("True", ws[c].cur))]
    /\ UNCHANGED <<handles, created, http, issued, fac, srv, cli, tlsb, sim, msgs>>

\* ws.send_json(...) completes and the loop returns to its receive; the frame
\* reaches the client that holds the other end of the connection
WsSendResponse(c) ==
    /\ ws[c].state = "open"
    /\ ws[c].pc = "send"
    /\ ws[c].peer = "up"
    /\ ws' = [ws EXCEPT ![c].pc = "recv", ![c].ndeliv = @ + 1,
                        ![c].cur = NoMsg, ![c].resp = NoResp]
    /\ cli' = IF cli.ws = c
              THEN [cli EXCEPT !.rx = Append(@, [of |-> ws[c].cur.seq,
                                                 success |-> ws[c].resp.success])]
              ELSE cli
    /\ UNCHANGED <<handles, created, stats, http, issued, fac, srv, tlsb, sim, msgs>>

\* the peer disconnects or sends a close
WsPeerClose(c) ==
    /\ ws[c].state = "open"
    /\ ws[c].peer = "up"
    /\ ws' = [ws EXCEPT ![c].peer = "gone"]
    /\ UNCHANGED <<handles, created, stats, http, issued, fac, srv, cli, tlsb, sim, msgs>>

\* the exception of the failed send leaves the handler and takes the server
\* and every connection with it
WsFinishCrash(c) ==
    /\ ws[c].state = "open"
    /\ ws[c].peer = "gone"
    /\ \/ ws[c].pc = "recv" /\ ws[c].inbox = <<>>
       \/ ws[c].pc = "send"
    /\ ws' = [d \in Conns |-> [WsInit EXCEPT !.state = "closed", !.peer = "gone"]]
    /\ http' = [h \in HttpSlots |-> [pc |-> "idle", cur |-> NoMsg, resp |-> NoResp]]
    /\ srv' = [srv EXCEPT !.phase = "crashed", !.listener = "none"]
    /\ UNCHANGED <<handles, created, stats, issued, fac, cli, tlsb, sim, msgs>>

\* the loop ends (no frame left) or send_json fails on the closed channel;
\* the finally clause runs and the handler returns
WsFinish(c) ==
    /\ ws[c].state = "open"
    /\ ws[c].peer = "gone"
    /\ \/ ws[c].pc = "recv" /\ ws[c].inbox = <<>>
       \/ ws[c].pc = "send"
    /\ ws' = [ws EXCEPT ![c] = [WsInit EXCEPT !.state = "closed", !.peer = "gone"]]
    /\ UNCHANGED <<handles, created, stats, http, issued, fac, srv, cli, tlsb, sim, msgs>>

-----------------------------------------------------------------------------
(* HTTP endpoint POST /api/execute, transparent.py:568-592 *)

HttpInit == [pc |-> "idle", cur |-> NoMsg, resp |-> NoResp]

\* lines 573-592: the body of a posted envelope has arrived; parse and
\* execute; build the response unless execute suspends
HttpServe(h, shapes) ==
    /\ srv.phase = "listening"
    /\ http[h].pc = "idle"
    /\ issued < MaxReqs
    /\ \E shape \in shapes, gen \in GenIds :
         LET message == PostInit(Envelope(shape, 1), gen)
             o == Outcome(message)
         IN  /\ handles' = HandlesAfter(message)
             /\ created' = CreatedAfter(message)
             /\ stats' = StatsAfter(message)
             /\ http' = [http EXCEPT
                    ![h].cur = message,
                    ![h].pc = IF o.sleeps THEN "sleep" ELSE "done",
                    ![h].resp = IF o.sleeps THEN NoResp ELSE ResponseFor(message, o)]
    /\ issued' = issued + 1
    /\ UNCHANGED <<ws, fac, srv, tlsb, sim, msgs>>

\* a request posted by some HTTP client
HttpHandle(h) == HttpServe(h, ReqShapes) /\ UNCHANGED cli

\* asyncio.sleep in audio_play is over: execute finishes, the response is built
HttpWake(h) ==
    /\ http[h].pc = "sleep"
    /\ stats' = CountMessage(stats)
    /\ http' = [http EXCEPT ![h].pc = "done",
                            ![h].resp = SuccessResponse("True", http[h].cur)]
    /\ UNCHANGED <<handles, created, ws, issued, fac, srv, cli, tlsb, sim, msgs>>

\* the handler returns its web.json_response and the exchange is over
HttpReturn(h) ==
    /\ http[h].pc = "done"
    /\ http' = [http EXCEPT ![h] = HttpInit]
    /\ UNCHANGED <<handles, created, stats, ws, issued, fac, srv, tlsb, sim, msgs>>

HttpRespond(h) == HttpReturn(h) /\ UNCHANGED cli

-----------------------------------------------------------------------------
(* Hardware interface factory, hardware/factory.py *)

\* the classes in the order create_all_interfaces builds them (lines 212-219)
Classes == <<"gpio", "i2c", "spi", "uart", "usb", "i2s">>

ClassSet == {Classes[i] : i \in 1..Len(Classes)}

\* what constructing and initializing the real driver can do
RealOutcomes == {"ctor_raises", "init_raises", "init_false", "init_true"}

\* create_spi tests "SimulatedSPI is None" where the others test the real driver
FirstTestUnavailable(cls, realAvail, simAvail) ==
    IF cls = "spi" THEN ~simAvail ELSE ~realAvail

\* create_gpio and create_i2c raise without a simulator, the others hand out a dummy
HasDummy(cls) == cls \in {"spi", "uart", "usb", "i2s"}

\* is_initialized after the simulator's constructor: SimulatedGPIO sets it
\* (gpio_simulator.py:21), the others leave it to initialize() (interfaces.py:23)
SimReadyAfterCtor(cls) == cls = "gpio"

NotMade ==
    [done |-> FALSE, real |-> FALSE, sim |-> FALSE, status |-> "none",
     kind |-> "none", ready |-> FALSE, ctor |-> FALSE, init |-> FALSE]

\* "if Simulated... is None: raise / return Dummy...; return Simulated...(config)"
SimulatorOrElse(cls, simAvail) ==
    IF simAvail
    THEN [status |-> "ok", kind |-> "sim", ready |-> SimReadyAfterCtor(cls)]
    ELSE IF HasDummy(cls)
         THEN [status |-> "ok", kind |-> "dummy", ready |-> TRUE]
         ELSE [status |-> "raised", kind |-> "none", ready |-> FALSE]

\* create_gpio ... create_i2s (lines 86-206).  realAvail / simAvail: the driver
\* class was imported (is not None); outcome: what the real driver does.
\*   ctor, init : the real driver's constructor / initialize() was entered
CreateInterface(cls, useSim, realAvail, simAvail, outcome) ==
    LET fb == SimulatorOrElse(cls, simAvail)
        fallback(c, i) ==
            [done |-> TRUE, real |-> realAvail, sim |-> simAvail, status |-> fb.status,
             kind |-> fb.kind, ready |-> fb.ready, ctor |-> c, init |-> i]
    IN  IF useSim \/ FirstTestUnavailable(cls, realAvail, simAvail)
        THEN fallback(FALSE, FALSE)
        ELSE IF ~realAvail
        THEN fallback(FALSE, FALSE)              \* calling None raises TypeError
        ELSE IF outcome = "ctor_raises"
        THEN fallback(TRUE, FALSE)
        ELSE IF outcome = "init_raises"
        THEN fallback(TRUE, TRUE)
        \* the value initialize() returns is not looked at
        ELSE [done |-> TRUE, real |-> realAvail, sim |-> simAvail, status |-> "ok",
              kind |-> "real", ready |-> (outcome = "init_true"),
              ctor |-> TRUE, init |-> TRUE]

FacIdle == [pc |-> "idle", useSim |-> FALSE, idx |-> 1, made |-> [cls \in ClassSet |-> NotMade]]

\* create_all_interfaces(use_simulators) is called
FacStart ==
    /\ fac.pc = "idle"
    /\ \E useSim \in BOOLEAN : fac' = [FacIdle EXCEPT !.pc = "running", !.useSim = useSim]
    /\ UNCHANGED <<handles, created, stats, ws, http, issued, srv, cli, tlsb, sim, msgs>>

\* the next entry of the dict literal is evaluated; an exception of create_*
\* leaves create_all_interfaces
FacCreate ==
    /\ fac.pc = "running"
    /\ fac.idx <= Len(Classes)
    /\ \E realAvail \in BOOLEAN, simAvail \in BOOLEAN, outcome \in RealOutcomes :
         LET cls == Classes[fac.idx]
             r == CreateInterface(cls, fac.useSim, realAvail, simAvail, outcome)
         IN  fac' = [fac EXCEPT !.made[cls] = r,
                                !.idx = @ + 1,
                                !.pc = IF r.status = "raised" THEN "raised" ELSE "running"]
    /\ UNCHANGED <<handles, created, stats, ws, http, issued, srv, cli, tlsb, sim, msgs>>

\* "return interfaces"
FacReturn ==
    /\ fac.pc = "running"
    /\ fac.idx > Len(Classes)
    /\ fac' = [fac EXCEPT !.pc = "returned"]
    /\ UNCHANGED <<handles, created, stats, ws, http, issued, srv, cli, tlsb, sim, msgs>>

\* the map create_all_interfaces returns
Interfaces == {cls \in ClassSet : fac.made[cls].status = "ok"}

-----------------------------------------------------------------------------
(* Life-cycle operations *)

\* start_server, transparent.py:501-554
StartServer ==
    /\ srv.phase = "constructed"
    /\ srv' = Listening(srv)
    /\ UNCHANGED <<handles, created, stats, ws, http, issued, fac, cli, tlsb, sim, msgs>>

\* GET /health, transparent.py:634-645
Health ==
    /\ srv.phase = "listening"
    /\ srv' = [srv EXCEPT !.health = [transport |-> srv.transport, tls |-> srv.tls_enabled]]
    /\ UNCHANGED <<handles, created, stats, ws, http, issued, fac, cli, tlsb, sim, msgs>>

\* the environment of the process changes after construction
EnvChange ==
    /\ srv.phase \in {"constructed", "listening"}
    /\ \E e \in Envs \ {srv.env} : srv' = [srv EXCEPT !.env = e]
    /\ UNCHANGED <<handles, created, stats, ws, http, issued, fac, cli, tlsb, sim, msgs>>

\* cli.py:356-367: server_main is cancelled or fails and calls
\* server.shutdown(); EDPMTransparent has no such method (nor close(), which
\* the test harness calls), so AttributeError ends the process: every
\* connection goes with it and no handle sees cleanup()
Shutdown ==
    /\ srv.phase = "listening"
    /\ srv' = [srv EXCEPT !.phase = "down", !.listener = "none"]
    /\ ws' = [c \in Conns |-> [WsInit EXCEPT !.state = "closed", !.peer = "gone"]]
    /\ http' = [h \in HttpSlots |-> HttpInit]
    /\ UNCHANGED <<handles, created, stats, issued, fac, cli, tlsb, sim, msgs>>

-----------------------------------------------------------------------------
(* Remote client, transparent.py:655-726 *)

\* one execute() call: seq numbers its request on the channel, got is the
\* number of the request the response it consumed was written for
CallInit == [pc |-> "idle", seq |-> 0, slot |-> 0, got |-> 0, success |-> FALSE]

\* __init__: self.ws = None; rx holds the frames received and not yet read,
\* waiters the calls suspended in self.ws.recv(), oldest first
CliInit == [ws |-> 0, rx |-> <<>>, waiters |-> <<>>, call |-> [k \in Calls |-> CallInit]]

\* Message(action=..., target=..., params=...): the client sends well-formed
\* envelopes and always gives them an id
ClientShapes == {[s EXCEPT !.hasId = TRUE] : s \in {t \in ReqShapes : t.defect = "none"}}

\* the connection behind self.ws can carry no frame any more
ChannelDown == ws[cli.ws].state # "open" \/ ws[cli.ws].peer # "up"

Without(seq, k) == SelectSeq(seq, LAMBDA x : x # k)

\* connect_websocket, lines 708-719, together with the server's side of the
\* handshake (ws.prepare, line 599): self.ws is overwritten
ClientConnectWebsocket(c) ==
    /\ srv.phase = "listening"
    /\ ws[c].state = "new"
    /\ ws' = [ws EXCEPT ![c].state = "open"]
    /\ cli' = [cli EXCEPT !.ws = c, !.rx = <<>>]
    /\ UNCHANGED <<handles, created, stats, http, issued, fac, srv, tlsb, sim, msgs>>

\* execute, lines 681-685, "if self.ws": the envelope is written to the
\* channel, or the send raises because the channel is closed
ClientExecuteWs(k) ==
    /\ cli.call[k].pc = "idle"
    /\ cli.ws # 0
    /\ issued < MaxReqs
    /\ IF ChannelDown
       THEN /\ cli' = [cli EXCEPT !.call[k].pc = "raised"]
            /\ UNCHANGED <<ws, issued>>
       ELSE \E shape \in ClientShapes :
              LET n == ws[cli.ws].nsent + 1
              IN  /\ ws' = [ws EXCEPT ![cli.ws].inbox = Append(@, Envelope(shape, n)),
                                      ![cli.ws].nsent = n]
                  /\ cli' = [cli EXCEPT !.call[k].pc = "sent", !.call[k].seq = n]
                  /\ issued' = issued + 1
    /\ UNCHANGED <<handles, created, stats, http, fac, srv, tlsb, sim, msgs>>

\* line 686, the call reaches self.ws.recv(): it waits for the next frame;
\* where another call already waits, the library either queues it behind
\* that call or refuses the second recv with an error
ClientCallRecv(k) ==
    /\ cli.call[k].pc = "sent"
    /\ \/ cli' = [cli EXCEPT !.call[k].pc = "recv", !.waiters = Append(@, k)]
       \/ /\ cli.waiters # <<>>
          /\ cli' = [cli EXCEPT !.call[k].pc = "raised"]
    /\ UNCHANGED <<handles, created, stats, ws, http, issued, fac, srv, tlsb, sim, msgs>>

\* lines 686-706: recv returns the next frame of the channel to the call
\* that waits longest; the call returns or raises by its success field
ClientRecv(k) ==
    /\ cli.waiters # <<>> /\ k = Head(cli.waiters)
    /\ cli.rx # <<>>
    /\ cli' = [cli EXCEPT !.rx = Tail(@), !.waiters = Tail(@),
                          !.call[k].got = Head(cli.rx).of,
                          !.call[k].success = Head(cli.rx).success,
                          !.call[k].pc = IF Head(cli.rx).success THEN "returned" ELSE "raised"]
    /\ UNCHANGED <<handles, created, stats, ws, http, issued, fac, srv, tlsb, sim, msgs>>

\* recv on a channel that is closed and drained raises ConnectionClosed
ClientRecvClosed(k) ==
    /\ cli.call[k].pc = "recv"
    /\ ChannelDown /\ cli.rx = <<>>
    /\ cli' = [cli EXCEPT !.waiters = Without(@, k), !.call[k].pc = "raised"]
    /\ UNCHANGED <<handles, created, stats, ws, http, issued, fac, srv, tlsb, sim, msgs>>

\* execute, lines 689-701, no self.ws: one POST /api/execute, which the
\* server starts to handle
ClientPost(k, h) ==
    /\ cli.call[k].pc = "idle"
    /\ cli.ws = 0
    /\ HttpServe(h, ClientShapes)
    /\ cli' = [cli EXCEPT !.call[k].pc = "http", !.call[k].slot = h, !.call[k].seq = 1]

\* lines 700-706: the response of the call's own exchange arrives
ClientHttpResponse(k) ==
    /\ cli.call[k].pc = "http"
    /\ HttpReturn(cli.call[k].slot)
    /\ cli' = [cli EXCEPT
           !.call[k].slot = 0, !.call[k].got = 1,
           !.call[k].success = http[cli.call[k].slot].resp.success,
           !.call[k].pc = IF http[cli.call[k].slot].resp.success THEN "returned" ELSE "raised"]

\* the total timeout of the aiohttp session ends the POST
ClientHttpTimeout(k) ==
    /\ cli.call[k].pc = "http"
    /\ cli' = [cli EXCEPT !.call[k].slot = 0, !.call[k].pc = "raised"]
    /\ UNCHANGED <<handles, created, stats, ws, http, issued, fac, srv, tlsb, sim, msgs>>

\* the server finishes an exchange whose client has given up
HttpRespondOrphan(h) ==
    /\ \A k \in Calls : cli.call[k].slot # h
    /\ HttpRespond(h)

\* close, lines 721-726: the channel is closed, self.ws stays as it is
ClientClose ==
    /\ cli.ws # 0
    /\ ws[cli.ws].state = "open" /\ ws[cli.ws].peer = "up"
    /\ ws' = [ws EXCEPT ![cli.ws].peer = "gone"]
    /\ UNCHANGED <<handles, created, stats, http, issued, fac, srv, cli, tlsb, sim, msgs>>

-----------------------------------------------------------------------------
(* Simulators: the I2C and UART simulators of hardware.py and of          *)
(* edpmt/hardware, and cleanup() of the interfaces                         *)

\* None (or an attribute that does not exist), and a value
Null == [some |-> FALSE]
Some(v) == [some |-> TRUE, v |-> v]

\* two of the five devices of self.devices, the same in both simulators:
\* 0x76 is the BME280, 0x3C the SSD1306 (device 0x10, on no roster, is
\* addressed too)
Roster == {118, 60}

\* random.randint(0, 255), length times: any bytes (two of them stand for all)
RandomBytes(length) == [1..length -> {39, 90}]

\* seq[from:to] of Python, for from and to that are not negative
Slice(seq, from, to) ==
    LET hi == IF to > Len(seq) THEN Len(seq) ELSE to
    IN  IF from >= hi THEN <<>> ELSE SubSeq(seq, from + 1, hi)

\* self.memory[key] = value, on a dict
Store(memory, key, value) ==
    [k \in DOMAIN memory \cup {key} |-> IF k = key THEN value ELSE memory[k]]

\* hardware.py:273-296 for the devices of this model: the set of values the
\* call can return; self.memory is not read
HwGenerateDeviceData(device, register, length) ==
    IF device = 118 /\ register = 208 THEN {<<96>>}
    ELSE IF device = 118 /\ register = 247
    THEN {<<128, 0, 0>> \o [i \in 1..(length - 3) |-> 0]}
    ELSE RandomBytes(length)

\* i2c_simulator.py:92-121 for the devices of this model
SimGenerateDeviceData(memory, device, register, length) ==
    IF <<device, register>> \in DOMAIN memory
          /\ Len(memory[<<device, register>>]) >= length
    THEN {Slice(memory[<<device, register>>], 0, length)}
    ELSE IF device = 118 /\ register = 247 THEN {Slice(<<90, 240, 0>>, 0, length)}
    ELSE IF device = 118 /\ register = 250 THEN {Slice(<<8, 142, 0>>, 0, length)}
    ELSE IF device = 118 /\ register = 253 THEN {Slice(<<45>>, 0, length)}
    ELSE RandomBytes(length)

\* initialize() calls in a row on one object
MaxInits == 2

\* a simulator as its constructor leaves it: impl is "I2CSimulator"
\* (hardware.py:222-235), which has no is_initialized and works from
\* construction on, or "SimulatedI2CInterface" (i2c_simulator.py:17-29);
\* last is the call made last, as its caller sees it, inits the results of
\* the initialize() calls made since the last call of another method
I2cNew(impl) ==
    [impl |-> impl, is_initialized |-> impl = "I2CSimulator", memory |-> <<>>,
     inits |-> <<>>,
     last |-> [op |-> "none", device |-> 0, register |-> 0, data |-> <<>>,
               length |-> 0, ok |-> FALSE]]

\* hardware.py:263-271
HwWrite(i2c, device, register, data) ==
    IF device \notin Roster THEN [i2c EXCEPT !.last.ok = FALSE]
    ELSE [i2c EXCEPT !.memory = Store(@, <<device, register>>, data), !.last.ok = TRUE]

\* i2c_simulator.py:70-90, write(device, data): the register is data[0]
SimWrite(i2c, device, data) ==
    IF ~i2c.is_initialized \/ device \notin Roster \/ Len(data) < 1
    THEN [i2c EXCEPT !.last.ok = FALSE]
    ELSE [i2c EXCEPT !.memory = Store(@, <<device, Head(data)>>, Tail(data)),
                     !.last.ok = TRUE]

\* an initialize() that refuses an object that is initialized already
I2cInitializeOnce ==
    /\ sim.i2c.impl # "none"
    /\ Len(sim.i2c.inits) < MaxInits
    /\ sim' = [sim EXCEPT !.i2c =
                 [I2cNew(@.impl) EXCEPT
                     !.memory = IF sim.i2c.is_initialized THEN sim.i2c.memory ELSE <<>>,
                     !.is_initialized = TRUE,
                     !.inits = Append(sim.i2c.inits, ~sim.i2c.is_initialized)]]
    /\ UNCHANGED <<handles, created, stats, ws, http, issued, fac, srv, cli, tlsb, msgs>>

\* initialize(): i2c_simulator.py:31-38 clears the memory, sets the flag and
\* returns True; hardware.py:237-240 writes to the log
I2cInitialize ==
    /\ sim.i2c.impl # "none"
    /\ Len(sim.i2c.inits) < MaxInits
    /\ sim' = [sim EXCEPT !.i2c =
                 [I2cNew(@.impl) EXCEPT
                     !.memory = IF sim.i2c.impl = "I2CSimulator" THEN sim.i2c.memory
                                ELSE <<>>,
                     !.is_initialized = TRUE,
                     !.inits = Append(sim.i2c.inits, TRUE)]]
    /\ UNCHANGED <<handles, created, stats, ws, http, issued, fac, srv, cli, tlsb, msgs>>

\* the interface's write action: transparent.py:344-350 on hardware.py's
\* simulator; interfaces.py:159-166 on the other one, where
\* execute('write', device=, register=, data=) passes device and data on and
\* drops the register.  prefixed is a direct call of i2c_simulator.py:70
\* with the register put in front of the bytes, the one form in which a
\* register reaches that simulator
I2cWrite(device, register, data, prefixed) ==
    /\ sim.i2c.impl # "none"
    /\ prefixed => sim.i2c.impl = "SimulatedI2CInterface"
    /\ LET asked == [sim.i2c EXCEPT !.inits = <<>>, !.last =
                        [op |-> "write", device |-> device, register |-> register,
                         data |-> data, length |-> Len(data), ok |-> FALSE]]
       IN  sim' = [sim EXCEPT !.i2c =
                      IF sim.i2c.impl = "I2CSimulator"
                      THEN HwWrite(asked, device, register, data)
                      ELSE SimWrite(asked, device,
                                    IF prefixed THEN <<register>> \o data ELSE data)]
    /\ UNCHANGED <<handles, created, stats, ws, http, issued, fac, srv, cli, tlsb, msgs>>

\* read: hardware.py:252-261 raises for a device off the roster;
\* i2c_simulator.py:56-68 returns b'' for it and before initialize
I2cRead(device, register, length) ==
    /\ sim.i2c.impl # "none"
    /\ LET refused == device \notin Roster \/ ~sim.i2c.is_initialized
           values == IF refused THEN {<<>>}
                     ELSE IF sim.i2c.impl = "I2CSimulator"
                     THEN HwGenerateDeviceData(device, register, length)
                     ELSE SimGenerateDeviceData(sim.i2c.memory, device, register, length)
       IN  \E data \in values :
              sim' = [sim EXCEPT !.i2c.inits = <<>>, !.i2c.last =
                         [op |-> "read", device |-> device, register |-> register,
                          data |-> data, length |-> length, ok |-> ~refused]]
    /\ UNCHANGED <<handles, created, stats, ws, http, issued, fac, srv, cli, tlsb, msgs>>

\* writes and reads of one UART simulator
MaxUartOps == 4

\* uart_simulator.py:46, the limit of a port's buffer
Capacity == 4096

Ports == {"/dev/ttyUSB0", "/dev/ttyS0"}

\* the bytes a port holds; a port the dict does not know holds none
Buffer(uart, port) == IF port \in DOMAIN uart.buffers THEN uart.buffers[port] ELSE <<>>

\* the constructors: impl is "UARTSimulator" (hardware.py:434-440), which
\* has no is_initialized, or "SimulatedUARTInterface" (uart_simulator.py:16-21)
UartNew(impl) ==
    [impl |-> impl, is_initialized |-> impl = "UARTSimulator", buffers |-> <<>>,
     inits |-> <<>>,
     ops |-> 0, last |-> [op |-> "none", port |-> "", data |-> <<>>, length |-> 0, ok |-> FALSE]]

\* hardware.py:449-457: the bytes are appended, whatever the buffer's length
HwUartWrite(uart, port, data) ==
    [uart EXCEPT !.buffers = Store(@, port, Buffer(uart, port) \o data),
                 !.last = [op |-> "write", port |-> port, data |-> data,
                           length |-> Len(data), ok |-> TRUE]]

\* uart_simulator.py:36-51: refused before initialize; the bytes are
\* appended and the newest 4096 kept
SimUartWrite(uart, port, data) ==
    LET all == Buffer(uart, port) \o data
    IN  IF ~uart.is_initialized
        THEN [uart EXCEPT !.last = [op |-> "write", port |-> port, data |-> data,
                                    length |-> Len(data), ok |-> FALSE]]
        ELSE [uart EXCEPT
                 !.buffers = Store(@, port,
                                   IF Len(all) > Capacity
                                   THEN Slice(all, Len(all) - Capacity, Len(all)) ELSE all),
                 !.last = [op |-> "write", port |-> port, data |-> data,
                           length |-> Len(data), ok |-> TRUE]]

\* hardware.py:459-475: the set of outcomes; with fewer bytes than asked
\* for, random bytes are returned and the buffer is left alone
HwUartRead(uart, port, length) ==
    LET buffer == Buffer(uart, port)
    IN  IF Len(buffer) >= length
        THEN {[uart EXCEPT !.buffers = Store(@, port, Slice(buffer, length, Len(buffer))),
                           !.last = [op |-> "read", port |-> port,
                                     data |-> Slice(buffer, 0, length),
                                     length |-> length, ok |-> TRUE]]}
        ELSE {[uart EXCEPT !.buffers = Store(@, port, buffer),
                           !.last = [op |-> "read", port |-> port, data |-> data,
                                     length |-> length, ok |-> TRUE]] :
                 data \in RandomBytes(length)}

\* uart_simulator.py:53-67: up to length bytes from the front
SimUartRead(uart, port, length) ==
    LET buffer == Buffer(uart, port)
        data == Slice(buffer, 0, length)
    IN  IF ~uart.is_initialized \/ port \notin DOMAIN uart.buffers \/ Len(buffer) = 0
        THEN {[uart EXCEPT !.last = [op |-> "read", port |-> port, data |-> <<>>,
                                     length |-> length, ok |-> uart.is_initialized]]}
        ELSE {[uart EXCEPT !.buffers = Store(@, port, Slice(buffer, Len(data), Len(buffer))),
                           !.last = [op |-> "read", port |-> port, data |-> data,
                                     length |-> length, ok |-> TRUE]]}

\* initialize(): uart_simulator.py:23-28 clears the buffers, sets the flag
\* and returns True; hardware.py:442-443 writes to the log
UartInitialize ==
    /\ sim.uart.impl # "none"
    /\ Len(sim.uart.inits) < MaxInits
    /\ sim' = [sim EXCEPT
                 !.uart.buffers = IF sim.uart.impl = "UARTSimulator" THEN @ ELSE <<>>,
                 !.uart.is_initialized = TRUE,
                 !.uart.last = UartNew("none").last,
                 !.uart.inits = Append(@, TRUE)]
    /\ UNCHANGED <<handles, created, stats, ws, http, issued, fac, srv, cli, tlsb, msgs>>

UartWrite(port, data) ==
    /\ sim.uart.impl # "none"
    /\ sim.uart.ops < MaxUartOps
    /\ sim' = [sim EXCEPT !.uart =
                 [(IF sim.uart.impl = "UARTSimulator"
                   THEN HwUartWrite(@, port, data)
                   ELSE SimUartWrite(@, port, data)) EXCEPT !.ops = @ + 1, !.inits = <<>>]]
    /\ UNCHANGED <<handles, created, stats, ws, http, issued, fac, srv, cli, tlsb, msgs>>

UartRead(port, length) ==
    /\ sim.uart.impl # "none"
    /\ sim.uart.ops < MaxUartOps
    /\ \E after \in (IF sim.uart.impl = "UARTSimulator"
                     THEN HwUartRead(sim.uart, port, length)
                     ELSE SimUartRead(sim.uart, port, length)) :
          sim' = [sim EXCEPT !.uart = [after EXCEPT !.ops = @ + 1, !.inits = <<>>]]
    /\ UNCHANGED <<handles, created, stats, ws, http, issued, fac, srv, cli, tlsb, msgs>>

\* cleanup() calls on one interface object
MaxCleanups == 3

\* the constructors of "GPIOInterface" (hardware.py:49-56),
\* "RPiGPIOInterface" (gpio_rpi.py:21-27), "SimulatedUSBInterface"
\* (usb_simulator.py:17-28) and "SimulatedUARTInterface"; driver says whether
\* RPi.GPIO can be imported.  gpio is self.gpio: the module or None in
\* gpio_rpi.py (lines 10-13, 25), None until initialize in hardware.py.
\* device_buffers is the USB simulator's; its connected_devices is assigned
\* by no constructor and no method (Null: the attribute does not exist).
\* last is the USB call made last: it raised, or returned value (connect
\* and send_data) or data (receive_data)
IfaceNew(cls, driver) ==
    [cls |-> cls, driver |-> driver, gpio |-> cls = "RPiGPIOInterface" /\ driver,
     is_initialized |-> FALSE, pwm |-> {}, outcomes |-> <<>>, inits |-> <<>>,
     device_buffers |-> <<>>, connected_devices |-> Null,
     last |-> [op |-> "none", device |-> "", raised |-> FALSE, value |-> FALSE,
               data |-> <<>>]]

\* is_initialized exists in the classes of edpmt/hardware only
\* (interfaces.py:23)
Usable(iface) ==
    IF iface.cls = "GPIOInterface" THEN iface.gpio ELSE iface.is_initialized

\* initialize: hardware.py:58-68 raises without the driver; gpio_rpi.py:29-44
\* returns False without it; the simulators set is_initialized
IfaceInitialize ==
    /\ sim.iface.cls # "none"
    /\ Len(sim.iface.inits) < MaxInits
    /\ sim' = [sim EXCEPT !.iface =
                 IF @.cls = "GPIOInterface"
                 THEN [@ EXCEPT !.gpio = @ \/ sim.iface.driver,
                                !.inits = Append(@, sim.iface.driver)]
                 ELSE IF @.cls = "RPiGPIOInterface"
                 THEN [@ EXCEPT !.is_initialized = @ \/ sim.iface.gpio,
                                !.inits = Append(@, sim.iface.gpio)]
                 ELSE [@ EXCEPT !.is_initialized = TRUE, !.inits = Append(@, TRUE)]]
    /\ UNCHANGED <<handles, created, stats, ws, http, issued, fac, srv, cli, tlsb, msgs>>

\* pwm: hardware.py:101-116, gpio_rpi.py:98-120
IfacePwm(pin) ==
    /\ sim.iface.cls \in {"GPIOInterface", "RPiGPIOInterface"}
    /\ Usable(sim.iface)
    /\ sim' = [sim EXCEPT !.iface.pwm = @ \cup {pin}, !.iface.inits = <<>>]
    /\ UNCHANGED <<handles, created, stats, ws, http, issued, fac, srv, cli, tlsb, msgs>>

\* hardware.py:70-80: pwm.stop() and GPIO.cleanup() are called bare, what
\* the driver raises leaves the method
HwGpioCleanup(iface, stopFails, cleanupFails) ==
    IF ~iface.gpio THEN [iface EXCEPT !.outcomes = Append(@, "returned")]
    ELSE IF iface.pwm # {} /\ stopFails THEN [iface EXCEPT !.outcomes = Append(@, "raised")]
    ELSE [iface EXCEPT !.pwm = {},
                       !.outcomes = Append(@, IF cleanupFails THEN "raised" ELSE "returned")]

\* gpio_rpi.py:46-63: every driver call is inside try/except
RPiGpioCleanup(iface, stopFails, cleanupFails) ==
    IF iface.is_initialized /\ iface.gpio
    THEN [iface EXCEPT !.pwm = {}, !.is_initialized = FALSE,
                       !.outcomes = Append(@, "returned")]
    ELSE [iface EXCEPT !.outcomes = Append(@, "returned")]

\* cleanup() in any state of the object; the driver may fail in any call.
\* usb_simulator.py:36-41: self.connected_devices is assigned nowhere in the
\* class nor in its bases, line 39 raises AttributeError.
\* uart_simulator.py:30-34 clears and returns
IfaceCleanup ==
    /\ sim.iface.cls # "none"
    /\ Len(sim.iface.outcomes) < MaxCleanups
    /\ \E stopFails \in BOOLEAN, cleanupFails \in BOOLEAN :
          sim' = [sim EXCEPT !.iface =
                     [(IF @.cls = "GPIOInterface"
                       THEN HwGpioCleanup(@, stopFails, cleanupFails)
                       ELSE IF @.cls = "RPiGPIOInterface"
                       THEN RPiGpioCleanup(@, stopFails, cleanupFails)
                       ELSE IF @.cls = "SimulatedUSBInterface"
                       THEN [@ EXCEPT !.device_buffers = <<>>,
                                      !.outcomes = Append(@, "raised")]
                       ELSE [@ EXCEPT !.is_initialized = FALSE,
                                      !.outcomes = Append(@, "returned")])
                      EXCEPT !.inits = <<>>]]
    /\ UNCHANGED <<handles, created, stats, ws, http, issued, fac, srv, cli, tlsb, msgs>>

\* connect, usb_simulator.py:52-66: False before initialize and for a device
\* off the roster of line 22-26; for a device on it, line 59 assigns into
\* self.connected_devices, which raises AttributeError while the attribute
\* does not exist
UsbConnect(device) ==
    /\ sim.iface.cls = "SimulatedUSBInterface"
    /\ LET listed == device \in {"04B4:6500", "046D:C077", "0781:5567"}
           absent == ~sim.iface.connected_devices.some
       IN  sim' = [sim EXCEPT !.iface =
                     IF ~@.is_initialized \/ ~listed
                     THEN [@ EXCEPT !.inits = <<>>,
                                    !.last = [op |-> "connect", device |-> device,
                                              raised |-> FALSE, value |-> FALSE, data |-> <<>>]]
                     ELSE IF absent
                     THEN [@ EXCEPT !.inits = <<>>,
                                    !.last = [op |-> "connect", device |-> device,
                                              raised |-> TRUE, value |-> FALSE, data |-> <<>>]]
                     ELSE [@ EXCEPT !.inits = <<>>,
                                    !.connected_devices = Some(@.v \cup {device}),
                                    !.device_buffers = IF device \in DOMAIN @ THEN @
                                                       ELSE Store(@, device, <<>>),
                                    !.last = [op |-> "connect", device |-> device,
                                              raised |-> FALSE, value |-> TRUE, data |-> <<>>]]]
    /\ UNCHANGED <<handles, created, stats, ws, http, issued, fac, srv, cli, tlsb, msgs>>

\* send_data, usb_simulator.py:82-101: False before initialize; line 88
\* reads self.connected_devices; the bytes are appended and the newest 4096
\* kept
UsbSendData(device, data) ==
    /\ sim.iface.cls = "SimulatedUSBInterface"
    /\ sim' = [sim EXCEPT !.iface =
                 IF ~@.is_initialized
                 THEN [@ EXCEPT !.inits = <<>>,
                                !.last = [op |-> "send", device |-> device,
                                          raised |-> FALSE, value |-> FALSE, data |-> <<>>]]
                 ELSE IF ~@.connected_devices.some
                 THEN [@ EXCEPT !.inits = <<>>,
                                !.last = [op |-> "send", device |-> device,
                                          raised |-> TRUE, value |-> FALSE, data |-> <<>>]]
                 ELSE IF device \notin @.connected_devices.v
                 THEN [@ EXCEPT !.inits = <<>>,
                                !.last = [op |-> "send", device |-> device,
                                          raised |-> FALSE, value |-> FALSE, data |-> <<>>]]
                 ELSE LET all == Buffer([buffers |-> sim.iface.device_buffers], device) \o data
                      IN  [@ EXCEPT !.inits = <<>>,
                                    !.device_buffers =
                                        Store(@, device,
                                              IF Len(all) > Capacity
                                              THEN Slice(all, Len(all) - Capacity, Len(all))
                                              ELSE all),
                                    !.last = [op |-> "send", device |-> device,
                                              raised |-> FALSE, value |-> TRUE, data |-> <<>>]]]
    /\ UNCHANGED <<handles, created, stats, ws, http, issued, fac, srv, cli, tlsb, msgs>>

\* receive_data, usb_simulator.py:103-122: b'' before initialize; line 109
\* reads self.connected_devices; up to length bytes are taken from the front
\* of the device's buffer
UsbReceiveData(device, length) ==
    /\ sim.iface.cls = "SimulatedUSBInterface"
    /\ sim' = [sim EXCEPT !.iface =
                 IF ~@.is_initialized
                 THEN [@ EXCEPT !.inits = <<>>,
                                !.last = [op |-> "receive", device |-> device,
                                          raised |-> FALSE, value |-> FALSE, data |-> <<>>]]
                 ELSE IF ~@.connected_devices.some
                 THEN [@ EXCEPT !.inits = <<>>,
                                !.last = [op |-> "receive", device |-> device,
                                          raised |-> TRUE, value |-> FALSE, data |-> <<>>]]
                 ELSE LET unread == IF device \in sim.iface.connected_devices.v
                                    THEN Buffer([buffers |-> sim.iface.device_buffers], device)
                                    ELSE <<>>
                      IN  [@ EXCEPT !.inits = <<>>,
                                    !.device_buffers =
                                        IF unread = <<>> THEN @
                                        ELSE Store(@, device, Slice(unread, length, Len(unread))),
                                    !.last = [op |-> "receive", device |-> device,
                                              raised |-> FALSE, value |-> FALSE,
                                              data |-> Slice(unread, 0, length)]]]
    /\ UNCHANGED <<handles, created, stats, ws, http, issued, fac, srv, cli, tlsb, msgs>>

\* the digital-io simulators as their constructors leave them: impl is
\* "GPIOSimulator" (hardware.py:122-126), which has no flag, or
\* "SimulatedGPIO" (gpio_simulator.py:16-22), whose flag is self.initialized
\* and is set by the constructor.  Python's False is the number 0.  sets
\* holds, per pin, the value of the latest set call that returned since the
\* last cleanup(), inputs the pins whose latest configure_pin call made them
\* inputs: both are the history of the calls, no method reads them
GpioNew(impl) ==
    [impl |-> impl, initialized |-> impl # "none", pins |-> <<>>, modes |-> <<>>,
     inits |-> <<>>, sets |-> <<>>, inputs |-> {},
     last |-> [op |-> "none", pin |-> 0, value |-> 0, raised |-> FALSE]]

\* initialize(): gpio_simulator.py:24-28 sets the flag and returns True;
\* hardware.py:128-129 writes to the log
GpioInitialize ==
    /\ sim.gpio.impl # "none"
    /\ Len(sim.gpio.inits) < MaxInits
    /\ sim' = [sim EXCEPT !.gpio.initialized = TRUE,
                          !.gpio.inits = Append(@, TRUE),
                          !.gpio.last = GpioNew("none").last]
    /\ UNCHANGED <<handles, created, stats, ws, http, issued, fac, srv, cli, tlsb, msgs>>

\* cleanup(): gpio_simulator.py:30-33 resets the flag and keeps the pins;
\* hardware.py:131-134 clears the pins
GpioCleanup ==
    /\ sim.gpio.impl # "none"
    /\ sim.gpio.last.op # "cleanup"
    /\ sim' = [sim EXCEPT
                 !.gpio.initialized = sim.gpio.impl = "GPIOSimulator",
                 !.gpio.pins = IF sim.gpio.impl = "GPIOSimulator" THEN <<>> ELSE @,
                 !.gpio.inits = <<>>,
                 !.gpio.sets = <<>>,
                 !.gpio.last = [GpioNew("none").last EXCEPT !.op = "cleanup"]]
    /\ UNCHANGED <<handles, created, stats, ws, http, issued, fac, srv, cli, tlsb, msgs>>

\* a set that keeps the value a pin already has
GpioSetPinOnce(pin, value) ==
    /\ sim.gpio.impl # "none"
    /\ sim' = [sim EXCEPT
                 !.gpio.pins = IF pin \in DOMAIN @ THEN @ ELSE Store(@, pin, value),
                 !.gpio.sets = Store(@, pin, value),
                 !.gpio.inits = <<>>,
                 !.gpio.last = [op |-> "set", pin |-> pin, value |-> value, raised |-> FALSE]]
    /\ UNCHANGED <<handles, created, stats, ws, http, issued, fac, srv, cli, tlsb, msgs>>

\* set: hardware.py:136-139 stores the value; gpio_simulator.py:35-42 makes
\* a pin without a mode an output, raises ValueError for a pin whose mode is
\* not "output", and stores the value otherwise
GpioSetPin(pin, value) ==
    /\ sim.gpio.impl # "none"
    /\ LET modes == IF sim.gpio.impl = "SimulatedGPIO" /\ pin \notin DOMAIN sim.gpio.modes
                    THEN Store(sim.gpio.modes, pin, "output") ELSE sim.gpio.modes
           raises == sim.gpio.impl = "SimulatedGPIO" /\ modes[pin] # "output"
       IN  sim' = [sim EXCEPT
                     !.gpio.modes = modes,
                     !.gpio.pins = IF raises THEN @ ELSE Store(@, pin, value),
                     !.gpio.sets = IF raises THEN @ ELSE Store(@, pin, value),
                     !.gpio.inits = <<>>,
                     !.gpio.last = [op |-> "set", pin |-> pin, value |-> value,
                                    raised |-> raises]]
    /\ UNCHANGED <<handles, created, stats, ws, http, issued, fac, srv, cli, tlsb, msgs>>

\* get: hardware.py:141-146 returns the stored value, or random.randint(0, 1)
\* for a pin that holds none; gpio_simulator.py:44-50 makes a pin without a
\* mode an input and returns the stored value, or False
GpioGetPin(pin) ==
    /\ sim.gpio.impl # "none"
    /\ \E value \in (IF pin \in DOMAIN sim.gpio.pins THEN {sim.gpio.pins[pin]}
                      ELSE IF sim.gpio.impl = "GPIOSimulator" THEN {0, 1} ELSE {0}) :
          sim' = [sim EXCEPT
                    !.gpio.modes = IF sim.gpio.impl = "SimulatedGPIO" /\ pin \notin DOMAIN @
                                   THEN Store(@, pin, "input") ELSE @,
                    !.gpio.inits = <<>>,
                    !.gpio.last = [op |-> "get", pin |-> pin, value |-> value,
                                   raised |-> FALSE]]
    /\ UNCHANGED <<handles, created, stats, ws, http, issued, fac, srv, cli, tlsb, msgs>>

\* configure_pin, gpio_simulator.py:52-57, with one of the two modes it takes
GpioConfigurePin(pin, mode) ==
    /\ sim.gpio.impl = "SimulatedGPIO"
    /\ sim' = [sim EXCEPT
                 !.gpio.modes = Store(@, pin, mode),
                 !.gpio.inputs = IF mode = "input" THEN @ \cup {pin} ELSE @ \ {pin},
                 !.gpio.inits = <<>>,
                 !.gpio.last = [op |-> "configure", pin |-> pin, value |-> 0,
                                raised |-> FALSE]]
    /\ UNCHANGED <<handles, created, stats, ws, http, issued, fac, srv, cli, tlsb, msgs>>

\* the actions execute() knows, by class: interfaces.py:103-112 for
\* RPiGPIOInterface, 245-252 for SimulatedUARTInterface, 318-332 for
\* SimulatedUSBInterface, and gpio_simulator.py:59-70
ExecuteActions ==
    [RPiGPIOInterface |-> {"set", "get", "pwm"},
     SimulatedUARTInterface |-> {"write", "read"},
     SimulatedUSBInterface |-> {"list", "connect", "disconnect", "send", "receive"},
     SimulatedGPIO |-> {"set", "get", "configure"}]

\* the action is ignored and None returned
UnsupportedActionIgnored(cls, action) == [raises |-> "none", text |-> <<>>]

\* the last branch of each execute(): raise ValueError(f"Unsupported GPIO
\* action: {action}"), with the name of the bus in the classes of
\* interfaces.py and without it in gpio_simulator.py:70
UnsupportedAction(cls, action) ==
    [raises |-> "ValueError",
     text |-> IF cls = "SimulatedGPIO" THEN <<"Unsupported action: ", action>>
              ELSE IF cls = "RPiGPIOInterface" THEN <<"Unsupported GPIO action: ", action>>
              ELSE IF cls = "SimulatedUARTInterface" THEN <<"Unsupported UART action: ", action>>
              ELSE <<"Unsupported USB action: ", action>>]

\* execute(action) with an action none of the branches takes, on the
\* interface or the digital-io simulator under study: nothing is read or
\* written before the raise
ExecuteElse(action) ==
    LET cls == IF sim.iface.cls # "none" THEN sim.iface.cls ELSE sim.gpio.impl
    IN  /\ cls \in DOMAIN ExecuteActions
        /\ action \notin ExecuteActions[cls]
        /\ sim' = [sim EXCEPT !.iface.inits = <<>>, !.gpio.inits = <<>>,
                              !.exec = [made |-> TRUE, cls |-> cls, action |-> action,
                                        outcome |-> UnsupportedAction(cls, action)]]
        /\ UNCHANGED <<handles, created, stats, ws, http, issued, fac, srv, cli, tlsb, msgs>>

\* no simulator under study; exec is the execute() call that was refused last
SimInit ==
    [i2c |-> I2cNew("none"), uart |-> UartNew("none"), iface |-> IfaceNew("none", FALSE),
     gpio |-> GpioNew("none"), exec |-> [made |-> FALSE]]

-----------------------------------------------------------------------------
(* Envelopes as objects, transparent.py:38-64.  Strings are the sequences  *)
(* of their characters' code points.                                       *)

\* the wall clock time.time() reads, in microseconds, over a range that
\* holds a power of 16
MinClock == 14
MaxClock == 17

\* params as callers build them: none, gpio_set(17, 1), and the data of
\* EDPMClient.i2c_write (line 748) as bytes, as a list and as a tuple
ParamMaps ==
    { <<>>,
      [pin |-> [kind |-> "int", v |-> <<17>>], value |-> [kind |-> "int", v |-> <<1>>]],
      [data |-> [kind |-> "bytes", v |-> <<39>>]],
      [data |-> [kind |-> "list", v |-> <<39>>]],
      [data |-> [kind |-> "tuple", v |-> <<39>>]] }

RECURSIVE GenerateId(_)
\* line 57, f"{n:x}" for n = int(time.time() * 1000000): lower-case
\* hexadecimal, no padding
GenerateId(n) ==
    LET d == n % 16
        char == IF d < 10 THEN 48 + d ELSE 87 + d
    IN  IF n < 16 THEN <<char>> ELSE Append(GenerateId(n \div 16), char)

\* the defaults are not filled in
NewMessageUnfilled(action, target, params, id, timestamp, clock) ==
    [action |-> action, target |-> target, params |-> params, id |-> id,
     timestamp |-> timestamp]

\* Message(...) with __post_init__, lines 47-53: the fields of the object
NewMessage(action, target, params, id, timestamp, clock) ==
    [action |-> action, target |-> target,
     params |-> IF params.some THEN params ELSE Some(<<>>),
     id |-> IF id.some THEN id ELSE Some(GenerateId(clock)),
     timestamp |-> IF timestamp.some THEN timestamp ELSE Some(clock)]

RECURSIVE ToDec(_)
\* the decimal text of a number in JSON
ToDec(n) == IF n < 10 THEN <<48 + n>> ELSE Append(ToDec(n \div 10), 48 + (n % 10))

RECURSIVE FromDec(_)
FromDec(text) ==
    IF Len(text) = 0 THEN 0
    ELSE 10 * FromDec(SubSeq(text, 1, Len(text) - 1)) + (text[Len(text)] - 48)

\* a JSON string of characters that need no escape, and back
Quote(str) == <<34>> \o str \o <<34>>
Unquote(text) == SubSeq(text, 2, Len(text) - 1)

\* json.dumps of the params: numbers as decimal text, lists and tuples both
\* as arrays
Dumps(map) ==
    [k \in DOMAIN map |->
        IF map[k].kind = "int" THEN [json |-> "number", text |-> <<ToDec(map[k].v[1])>>]
        ELSE [json |-> "array", text |-> [i \in 1..Len(map[k].v) |-> ToDec(map[k].v[i])]]]

\* json.loads of the params: an array becomes a list
Loads(wire) ==
    [k \in DOMAIN wire |->
        IF wire[k].json = "number"
        THEN [kind |-> "int", v |-> <<FromDec(wire[k].text[1])>>]
        ELSE [kind |-> "list", v |-> [i \in 1..Len(wire[k].text) |-> FromDec(wire[k].text[i])]]]

\* None goes out as null and comes back as None; converted is the value of
\* a field that is not None
Opt(field, converted) == IF field.some THEN Some(converted) ELSE Null

\* to_json, lines 59-60: json.dumps(asdict(self)), which raises TypeError on
\* bytes; the object of the text is a record, the order of its keys is not
\* part of it
ToJson(m) ==
    IF m.params.some /\ \E k \in DOMAIN m.params.v : m.params.v[k].kind = "bytes"
    THEN [ok |-> FALSE]
    ELSE [ok |-> TRUE,
          text |-> [action |-> Quote(m.action), target |-> Quote(m.target),
                    params |-> Opt(m.params, Dumps(m.params.v)),
                    id |-> Opt(m.id, Quote(m.id.v)),
                    timestamp |-> Opt(m.timestamp, ToDec(m.timestamp.v))]]

\* from_json, lines 62-64: cls(**json.loads(data)), __post_init__ runs again
FromJson(text, clock) ==
    NewMessage(Unquote(text.action), Unquote(text.target),
               Opt(text.params, Loads(text.params.v)), Opt(text.id, Unquote(text.id.v)),
               Opt(text.timestamp, FromDec(text.timestamp.v)), clock)

\* no envelope built yet; prev and last are the two built most recently, rt
\* the round trip of last through to_json and from_json
MsgNew(clock) ==
    [clock |-> clock, prev |-> [made |-> FALSE], last |-> [made |-> FALSE],
     rt |-> [done |-> FALSE]]

\* time passes, or the wall clock is set back: time.time() follows the
\* system time and its corrections
MsgClock ==
    /\ msgs.clock >= MinClock
    /\ \E t \in MinClock..MaxClock :
          /\ t = msgs.clock + 1 \/ t < msgs.clock
          /\ msgs' = [msgs EXCEPT !.clock = t]
    /\ UNCHANGED <<handles, created, stats, ws, http, issued, fac, srv, cli, tlsb, sim>>

\* Message("set", "gpio", params, id, timestamp)
MsgConstruct(params, id, timestamp) ==
    /\ msgs.clock >= MinClock
    /\ msgs' = [msgs EXCEPT
           !.prev = msgs.last,
           !.last = [made |-> TRUE,
                     msg |-> NewMessage(<<115, 101, 116>>, <<103, 112, 105, 111>>,
                                        params, id, timestamp, msgs.clock),
                     given |-> [params |-> params, id |-> id, timestamp |-> timestamp]],
           !.rt = [done |-> FALSE]]
    /\ UNCHANGED <<handles, created, stats, ws, http, issued, fac, srv, cli, tlsb, sim>>

\* Message.from_json(m.to_json()) on the envelope built last
MsgRoundTrip ==
    /\ msgs.last.made
    /\ ~msgs.rt.done
    /\ LET wire == ToJson(msgs.last.msg)
       IN  msgs' = [msgs EXCEPT !.rt =
                       IF wire.ok
                       THEN [done |-> TRUE, ok |-> TRUE, msg |-> FromJson(wire.text, msgs.clock)]
                       ELSE [done |-> TRUE, ok |-> FALSE]]
    /\ UNCHANGED <<handles, created, stats, ws, http, issued, fac, srv, cli, tlsb, sim>>

-----------------------------------------------------------------------------
(* TLS bootstrap, transparent.py:143-167, 536-548, 658-677 *)

\* a context attribute before any context is made: self.ssl_context is unset
NoContext ==
    [made |-> FALSE, purpose |-> "none", loaded |-> FALSE,
     check_hostname |-> FALSE, verify_mode |-> "CERT_NONE"]

\* ssl.create_default_context(purpose): the library verifies the peer in a
\* context that authenticates servers (the default purpose) and does not in a
\* context that authenticates clients (Purpose.CLIENT_AUTH)
CreateDefaultContext(purpose) ==
    [made |-> TRUE, purpose |-> purpose, loaded |-> FALSE,
     check_hostname |-> purpose = "SERVER_AUTH",
     verify_mode |-> IF purpose = "SERVER_AUTH" THEN "CERT_REQUIRED" ELSE "CERT_NONE"]

\* lines 164-165 and 676-677
Relaxed(ctx) == [ctx EXCEPT !.check_hostname = FALSE, !.verify_mode = "CERT_NONE"]

DevRelaxesAlways(dev) == TRUE

\* lines 163 and 675: if os.environ.get('EDPM_DEV')
DevRelaxes(dev) == Truthy(dev)

NeedsGenerateAlways(cert, key) == TRUE

\* line 154: if not cert_file.exists() or not key_file.exists()
NeedsGenerate(cert, key) == ~cert \/ ~key

\* EDPMClient.__init__, lines 667-677: use_tls is the argument, or read from
\* the scheme of the url; a context is made only when use_tls holds
ClientContext(use_tls, scheme, dev) ==
    LET tls == IF use_tls # "none" THEN use_tls = "on" ELSE scheme = "https"
        ctx == CreateDefaultContext("SERVER_AUTH")
    IN  [built |-> TRUE, use_tls |-> tls,
         ssl_context |-> IF ~tls THEN NoContext
                         ELSE IF DevRelaxes(dev) THEN Relaxed(ctx) ELSE ctx]

\* persistent-channel clients of one server, and the readings of
\* time.time() they can connect at
NumClients == 2
MaxTime == 1

\* _default_config, lines 131-142: the keys
DefaultConfig ==
    {"port", "host", "ipc_path", "cert_dir", "auto_reconnect", "timeout", "buffer_size"}

\* no bootstrap under way.  A constructor about to run has pc "new" and
\* tls_enabled, which of the two files are in cert_dir (cert, key), whether
\* generate_certificates can succeed (genOk), the EDPM_DEV flag (dev) and
\* the keys of its config argument (arg, Null for None).  config holds the
\* keys of self.config, connections is self.connections (key -> client),
\* clients the handlers of the persistent channel and now the latest
\* reading of time.time()
TlsInit ==
    [pc |-> "idle", tls_enabled |-> FALSE, cert |-> FALSE, key |-> FALSE,
     genOk |-> FALSE, dev |-> "unset", generated |-> 0,
     ssl_context |-> NoContext, listener |-> "none",
     client |-> [built |-> FALSE, use_tls |-> FALSE, ssl_context |-> NoContext],
     arg |-> Null, config |-> {}, error |-> "none",
     connections |-> <<>>, now |-> 0,
     clients |-> [c \in 1..NumClients |-> [state |-> "new", key |-> 0]]]

\* __init__: line 90 is self.config = config or self._default_config(), and
\* an empty dict is false; line 115 calls _setup_tls, lines 143-167: without
\* TLS there is nothing to do.  With TLS, line 147 reads
\* self.config['cert_dir'], the pair is generated when a file is missing
\* (utils.py:49-166 writes both files, or raises, and so does __init__), the
\* context is made, the pair loaded into it and the context relaxed under
\* the flag
SetupTls ==
    /\ tlsb.pc = "new"
    /\ tlsb' =
         LET config == IF tlsb.arg.some /\ tlsb.arg.v # {} THEN tlsb.arg.v
                       ELSE DefaultConfig
         IN
         IF ~tlsb.tls_enabled THEN [tlsb EXCEPT !.pc = "constructed", !.config = config]
         ELSE IF "cert_dir" \notin config
         THEN [tlsb EXCEPT !.pc = "failed", !.config = config, !.error = "KeyError"]
         ELSE IF NeedsGenerate(tlsb.cert, tlsb.key) /\ ~tlsb.genOk
         THEN [tlsb EXCEPT !.pc = "failed", !.config = config, !.error = "generate"]
         ELSE [tlsb EXCEPT
                 !.pc = "constructed",
                 !.config = config,
                 !.cert = TRUE, !.key = TRUE,
                 !.generated = IF NeedsGenerate(tlsb.cert, tlsb.key) THEN @ + 1 ELSE @,
                 !.ssl_context =
                     LET ctx == [CreateDefaultContext("CLIENT_AUTH") EXCEPT !.loaded = TRUE]
                     IN  IF DevRelaxes(tlsb.dev) THEN Relaxed(ctx) ELSE ctx]
    /\ UNCHANGED <<handles, created, stats, ws, http, issued, fac, srv, cli, sim, msgs>>

\* _start_network_server, lines 537-550: the site is made from
\* self.config['host'] and self.config['port'] (lines 546-547) and started
\* with the context when TLS is on, with none otherwise
TlsListen ==
    /\ tlsb.pc = "constructed"
    /\ tlsb' = IF {"host", "port"} \subseteq tlsb.config
               THEN [tlsb EXCEPT !.pc = "listening",
                                 !.listener = IF tlsb.tls_enabled THEN "tls" ELSE "plain"]
               ELSE [tlsb EXCEPT !.pc = "failed", !.error = "KeyError"]
    /\ UNCHANGED <<handles, created, stats, ws, http, issued, fac, srv, cli, sim, msgs>>

\* _handle_websocket up to its loop, lines 598-604: the key is made from the
\* reading of time.time(), which is the last reading or a later one, and
\* the channel is stored under it
HandleWebsocketEnter(c) ==
    /\ tlsb.pc = "listening"
    /\ tlsb.clients[c].state = "new"
    /\ \E t \in tlsb.now..MaxTime :
          tlsb' = [tlsb EXCEPT !.now = t,
                               !.connections = Store(@, t, c),
                               !.clients[c] = [state |-> "open", key |-> t]]
    /\ UNCHANGED <<handles, created, stats, ws, http, issued, fac, srv, cli, sim, msgs>>

\* the finally clause, lines 628-630: self.connections.pop(client_id, None)
HandleWebsocketFinally(c) ==
    /\ tlsb.clients[c].state = "open"
    /\ tlsb' = [tlsb EXCEPT
                  !.connections = [k \in DOMAIN @ \ {tlsb.clients[c].key} |-> @[k]],
                  !.clients[c].state = "closed"]
    /\ UNCHANGED <<handles, created, stats, ws, http, issued, fac, srv, cli, sim, msgs>>

\* EDPMClient(url, use_tls) in the same environment
TlsClientInit ==
    /\ tlsb.pc # "idle"
    /\ ~tlsb.client.built
    /\ \E use_tls \in {"none", "on", "off"}, scheme \in {"http", "https"} :
          tlsb' = [tlsb EXCEPT !.client = ClientContext(use_tls, scheme, tlsb.dev)]
    /\ UNCHANGED <<handles, created, stats, ws, http, issued, fac, srv, cli, sim, msgs>>

-----------------------------------------------------------------------------
(* The dispatch server *)

Init ==
    /\ handles = [cls \in HwClasses |-> NoHandle]
    /\ created = [cls \in HwClasses |-> 0]
    /\ stats = [messages_sent |-> 0, messages_received |-> 0, errors |-> 0]
    /\ ws = [c \in Conns |-> WsInit]
    /\ http = [h \in HttpSlots |-> HttpInit]
    /\ issued = 0
    /\ fac = FacIdle
    /\ srv = DefaultServer
    /\ cli = CliInit
    /\ tlsb = TlsInit
    /\ sim = SimInit
    /\ msgs = MsgNew(0)

Next ==
    \/ \E c \in Conns : WsConnect(c)
    \/ \E c \in Conns : WsClientSend(c)
    \/ \E c \in Conns : WsReceive(c)
    \/ \E c \in Conns : WsWake(c)
    \/ \E c \in Conns : WsSendResponse(c)
    \/ \E c \in Conns : WsPeerClose(c)
    \/ \E c \in Conns : WsFinish(c)
    \/ \E h \in HttpSlots : HttpHandle(h)
    \/ \E h \in HttpSlots : HttpWake(h)
    \/ \E h \in HttpSlots : HttpRespond(h)
    \/ Shutdown

Spec == Init /\ [][Next]_vars

NextFactory == FacStart \/ FacCreate \/ FacReturn

SpecFactory == Init /\ [][NextFactory]_vars

\* a server of every construction, followed through its start, health
\* queries, changes of the environment, one request and its shutdown
InitConstruct ==
    /\ handles = [cls \in HwClasses |-> NoHandle]
    /\ created = [cls \in HwClasses |-> 0]
    /\ stats = [messages_sent |-> 0, messages_received |-> 0, errors |-> 0]
    /\ ws = [c \in Conns |-> WsInit]
    /\ http = [h \in HttpSlots |-> HttpInit]
    /\ issued = MaxReqs - 1
    /\ fac = FacIdle
    /\ cli = CliInit
    /\ tlsb = TlsInit
    /\ sim = SimInit
    /\ msgs = MsgNew(0)
    /\ \E transport \in Transports \cup {Auto}, tls \in {"none", "on", "off"},
          platform \in Platforms, env \in Envs, certOk \in BOOLEAN :
          srv = Construct(transport, tls, platform, env, certOk)

NextConstruct == StartServer \/ Health \/ EnvChange \/ Next

SpecConstruct == InitConstruct /\ [][NextConstruct]_vars

\* the parts of the library that run without a server, one of them under
\* study at a time: a TLS bootstrap for every state of cert_dir and of the
\* EDPM_DEV flag, an I2C simulator, a UART simulator or a hardware
\* interface of either implementation, or the envelopes of one process
InitParts ==
    /\ handles = [cls \in HwClasses |-> NoHandle]
    /\ created = [cls \in HwClasses |-> 0]
    /\ stats = [messages_sent |-> 0, messages_received |-> 0, errors |-> 0]
    /\ ws = [c \in Conns |-> WsInit]
    /\ http = [h \in HttpSlots |-> HttpInit]
    /\ issued = 0
    /\ fac = FacIdle
    /\ srv = DefaultServer
    /\ cli = CliInit
    /\ \/ /\ \E tls_enabled \in BOOLEAN, cert \in BOOLEAN, key \in BOOLEAN,
                genOk \in BOOLEAN, dev \in EnvValues,
                arg \in {Null, Some({}), Some({"hardware_simulators"}),
                         Some({"host", "port", "cert_dir"})} :
                tlsb = [TlsInit EXCEPT !.pc = "new", !.tls_enabled = tls_enabled,
                                       !.cert = cert, !.key = key, !.genOk = genOk,
                                       !.dev = dev, !.arg = arg]
          /\ sim = SimInit
          /\ msgs = MsgNew(0)
       \/ /\ tlsb = TlsInit
          /\ \/ \E impl \in {"I2CSimulator", "SimulatedI2CInterface"} :
                   sim = [SimInit EXCEPT !.i2c = I2cNew(impl)]
             \/ \E impl \in {"UARTSimulator", "SimulatedUARTInterface"} :
                   sim = [SimInit EXCEPT !.uart = UartNew(impl)]
             \/ \E cls \in {"GPIOInterface", "RPiGPIOInterface", "SimulatedUSBInterface",
                            "SimulatedUARTInterface"}, driver \in BOOLEAN :
                   sim = [SimInit EXCEPT !.iface = IfaceNew(cls, driver)]
             \/ \E impl \in {"GPIOSimulator", "SimulatedGPIO"} :
                   sim = [SimInit EXCEPT !.gpio = GpioNew(impl)]
          /\ msgs = MsgNew(0)
       \/ /\ tlsb = TlsInit
          /\ sim = SimInit
          /\ msgs = MsgNew(MinClock)

\* one server constructor, its listener and one client constructor
NextTls ==
    \/ SetupTls
    \/ TlsListen
    \/ TlsClientInit
    \/ \E c \in 1..NumClients : HandleWebsocketEnter(c)
    \/ \E c \in 1..NumClients : HandleWebsocketFinally(c)

SpecTls == InitParts /\ [][NextTls]_vars

\* the simulators written and read, the interfaces initialized, used and
\* cleaned up; the block is b"X" one byte short of the UART limit
NextSim ==
    \/ I2cInitialize
    \/ \E d \in Roster \cup {16}, r \in {244, 247}, data \in {<<>>, <<39>>, <<244, 39>>},
          prefixed \in BOOLEAN : I2cWrite(d, r, data, prefixed)
    \/ \E d \in Roster \cup {16}, r \in {244, 247}, n \in {1, 2} : I2cRead(d, r, n)
    \/ UartInitialize
    \/ \E port \in Ports,
          data \in {<<65, 66>>, <<67, 68>>, [i \in 1..(Capacity - 1) |-> 88]} :
          UartWrite(port, data)
    \/ \E port \in Ports, n \in {1, 3} : UartRead(port, n)
    \/ IfaceInitialize
    \/ \E pin \in {12, 18} : IfacePwm(pin)
    \/ IfaceCleanup
    \/ \E device \in {"04B4:6500", "dead:beef"} : UsbConnect(device)
    \/ \E device \in {"04B4:6500", "dead:beef"} : UsbSendData(device, <<65, 66>>)
    \/ \E device \in {"04B4:6500", "dead:beef"} : UsbReceiveData(device, 1)
    \/ GpioInitialize
    \/ GpioCleanup
    \/ \E pin \in {5, 17}, value \in {0, 1} : GpioSetPin(pin, value)
    \/ \E pin \in {5, 17} : GpioGetPin(pin)
    \/ \E pin \in {5, 17}, mode \in {"input", "output"} : GpioConfigurePin(pin, mode)
    \/ \E action \in {"pwm", "toggle"} : ExecuteElse(action)

SpecSim == InitParts /\ [][NextSim]_vars

\* the envelopes one process builds and sends through the wire format
NextMessage ==
    \/ MsgClock
    \/ \E params \in {Null} \cup {Some(p) : p \in ParamMaps},
          id \in {Null, Some(<<97>>)}, timestamp \in {Null, Some(0)} :
          MsgConstruct(params, id, timestamp)
    \/ MsgRoundTrip

SpecMessage == InitParts /\ [][NextMessage]_vars

\* the steps of the client's own coroutines
ClientSteps ==
    \/ \E k \in Calls : ClientCallRecv(k)
    \/ \E k \in Calls : ClientRecv(k)
    \/ \E k \in Calls : ClientRecvClosed(k)

\* one EDPMClient and the server it talks to
NextClient ==
    \/ \E c \in Conns : ClientConnectWebsocket(c)
    \/ \E k \in Calls : ClientExecuteWs(k)
    \/ \E k \in Calls : ClientCallRecv(k)
    \/ \E k \in Calls : ClientRecv(k)
    \/ \E k \in Calls : ClientRecvClosed(k)
    \/ \E k \in Calls, h \in HttpSlots : ClientPost(k, h)
    \/ \E k \in Calls : ClientHttpResponse(k)
    \/ \E k \in Calls : ClientHttpTimeout(k)
    \/ \E h \in HttpSlots : HttpRespondOrphan(h)
    \/ ClientClose
    \/ \E c \in Conns : WsReceive(c)
    \/ \E c \in Conns : WsWake(c)
    \/ \E c \in Conns : WsSendResponse(c)
    \/ \E c \in Conns : WsFinish(c)
    \/ \E h \in HttpSlots : HttpWake(h)
    \/ Shutdown

SpecClient == Init /\ [][NextClient]_vars

\* the client's coroutines are scheduled whenever they can run; nothing
\* obliges the server to answer
SpecClientLive == Init /\ [][NextClient]_vars /\ WF_vars(ClientSteps)

-----------------------------------------------------------------------------
(* Properties of the dispatch server *)

\* the exchanges whose response is built and about to leave the server
Answered ==
    {[req |-> ws[c].cur, resp |-> ws[c].resp] : c \in {d \in Conns : ws[d].state = "open" /\ ws[d].pc = "send"}}
    \cup {[req |-> http[h].cur, resp |-> http[h].resp] : h \in {g \in HttpSlots : http[g].pc = "done"}}

\* the requests a handler is working on or about to answer
InWork ==
    {ws[c].cur : c \in {d \in Conns : ws[d].state = "open" /\ ws[d].pc \in {"sleep", "send"}}}
    \cup {http[h].cur : h \in {g \in HttpSlots : http[g].pc \in {"sleep", "done"}}}

UnknownAction(req) ==
    req.defect = "none" /\ req.target \in KnownTargets /\ req.action \notin Vocabulary(req.target)

UnknownTarget(req) == req.defect = "none" /\ req.target \notin KnownTargets

\* the hardware operation of the request raised inside its wrapper
OperationFailed(req) ==
    /\ req.defect = "none"
    /\ req.target \in HwClasses
    /\ req.action \in Vocabulary(req.target)
    /\ ~(req.target = "gpio" /\ req.pargs = "none")
    /\ TryRaises(req)

\* C1: a request with an action outside the vocabulary of an existing target
\* is answered with success = false and an error text naming the action.
C1_UnknownActionRejected ==
    \A x \in Answered :
        UnknownAction(x.req) => ~x.resp.success /\ Contains(x.resp.error, x.req.action)

\* C2: every response, success or failure, carries the id of the request
\* envelope it answers.
C2_ResponseEchoesId ==
    \A x \in Answered : x.resp.id = x.req.id

\* C3: a request for a target outside the dispatch chain is answered with
\* success = false and an error text naming the target, and delivering that
\* answer leaves the persistent connection open and back in its receive loop.
C3_UnknownTargetRejected ==
    [][ /\ \A x \in Answered' :
              UnknownTarget(x.req) => ~x.resp.success /\ Contains(x.resp.error, x.req.target)
        /\ \A c \in Conns :
              (UnknownTarget(ws[c].cur) /\ ws'[c].ndeliv = ws[c].ndeliv + 1)
                  => ws'[c].state = "open" /\ ws'[c].pc = "recv" ]_vars

\* an unknown-target failure is about to be sent on a connection that has
\* already answered a request and has a further request queued behind this one
C3_Witness ==
    \E c \in Conns :
        /\ ws[c].state = "open" /\ ws[c].pc = "send" /\ ws[c].peer = "up"
        /\ UnknownTarget(ws[c].cur) /\ ~ws[c].resp.success
        /\ ws[c].inbox # <<>>

C10_OperationFailureReported ==
    \A x \in Answered :
        OperationFailed(x.req) => ~x.resp.success /\ x.resp.error # <<>>

\* a step in which the handler of connection c finishes a request: its
\* response is built and about to be sent
CompletedWs(c) ==
    /\ ws[c].state = "open" /\ ws[c].pc \in {"recv", "sleep"}
    /\ ws'[c].state = "open" /\ ws'[c].pc = "send"

CompletedHttp(h) == http[h].pc \in {"idle", "sleep"} /\ http'[h].pc = "done"

\* the request took a failure path: it was rejected, its operation failed, or
\* the response reports a failure
FailurePath(req, resp) ==
    UnknownAction(req) \/ UnknownTarget(req) \/ OperationFailed(req) \/ ~resp.success

\* what the claims on the counters want of a finished, well-formed request
CountersAsClaimed(req, resp) ==
    /\ stats'.messages_received = stats.messages_received + 1
    /\ stats'.messages_sent = stats.messages_sent + (IF resp.success THEN 1 ELSE 0)
    /\ stats'.messages_sent <= stats'.messages_received

ErrorsAsClaimed(req, resp) ==
    stats'.errors = stats.errors + (IF FailurePath(req, resp) THEN 1 ELSE 0)

\* C11: every well-formed request counts in messages_received, also when its
\* dispatch fails; messages_sent counts the successful ones only; so
\* messages_sent never exceeds messages_received.
C11_ReceivedCountsEveryRequest ==
    [][ /\ \A c \in Conns :
              (CompletedWs(c) /\ ws'[c].cur.defect = "none")
                  => CountersAsClaimed(ws'[c].cur, ws'[c].resp)
        /\ \A h \in HttpSlots :
              (CompletedHttp(h) /\ http'[h].cur.defect = "none")
                  => CountersAsClaimed(http'[h].cur, http'[h].resp) ]_vars

\* C12: every failure path of a well-formed request (unknown action, unknown
\* target, failed operation, exception of the handler) adds one to errors, and
\* a successful request leaves errors as it was.
C12_ErrorsCountEveryFailure ==
    [][ /\ \A c \in Conns :
              (CompletedWs(c) /\ ws'[c].cur.defect = "none")
                  => ErrorsAsClaimed(ws'[c].cur, ws'[c].resp)
        /\ \A h \in HttpSlots :
              (CompletedHttp(h) /\ http'[h].cur.defect = "none")
                  => ErrorsAsClaimed(http'[h].cur, http'[h].resp) ]_vars

\* a step in which the handling of a request on connection c fails: a failure
\* response is built, or the response cannot be sent and the handler ends;
\* a shutdown of the whole server is not such a step
FailureStepWs(c) ==
    /\ srv'.phase # "down"
    /\ \/ CompletedWs(c) /\ ~ws'[c].resp.success
       \/ /\ ws[c].state = "open" /\ ws[c].pc = "send" /\ ws[c].peer = "gone"
          /\ ws'[c].state = "closed"

FailureStepHttp(h) ==
    /\ srv'.phase # "down"
    /\ CompletedHttp(h) /\ ~http'[h].resp.success

C16_ShutdownCleansHandles ==
    srv.phase = "down" =>
        \A cls \in HwClasses : handles[cls] # NoHandle => cls \in srv.cleaned

\* C17: a frame that is no JSON, has an unknown field or lacks a required
\* field is answered with a failure carrying the error (status 400 over HTTP),
\* and delivering that answer leaves the persistent connection open and back
\* in its receive loop.
C17_MalformedRejected ==
    [][ /\ \A c \in Conns :
              (ws'[c].state = "open" /\ ws'[c].pc = "send" /\ ws'[c].cur.defect # "none")
                  => ~ws'[c].resp.success /\ ws'[c].resp.error # <<>>
        /\ \A c \in Conns :
              (ws[c].cur.defect # "none" /\ ws'[c].ndeliv = ws[c].ndeliv + 1)
                  => ws'[c].state = "open" /\ ws'[c].pc = "recv"
        /\ \A h \in HttpSlots :
              (http'[h].pc = "done" /\ http'[h].cur.defect # "none")
                  => /\ ~http'[h].resp.success /\ http'[h].resp.error # <<>>
                     /\ http'[h].resp.status = 400 ]_vars

\* the failure for a frame with an unknown field is about to be sent on a
\* connection that has a further request queued behind it
C17_Witness ==
    \E c \in Conns :
        /\ ws[c].state = "open" /\ ws[c].pc = "send" /\ ws[c].peer = "up"
        /\ ws[c].cur.defect = "field" /\ ~ws[c].resp.success
        /\ ws[c].inbox # <<>>

-----------------------------------------------------------------------------
(* Properties of the remote client *)

\* C13: an execute() call that waits for its response does not wait for
\* ever: it returns or fails.
C13_CallTerminates ==
    \A k \in Calls :
        (cli.call[k].pc = "recv") ~> (cli.call[k].pc \in {"returned", "raised"})

\* C14: the response an execute() call consumes is the one written for its
\* own request.
C14_CallGetsOwnResponse ==
    \A k \in Calls :
        cli.call[k].got # 0 => cli.call[k].got = cli.call[k].seq

\* the connections the client has opened and not closed
OpenChannels == {c \in Conns : ws[c].state = "open" /\ ws[c].peer = "up"}

\* the client never connected, or it has called close()
NoChannelOpen == cli.ws = 0 \/ ws[cli.ws].peer = "gone"

\* C23: the client has at most one persistent connection open, and an
\* execute() called while none is open (never connected, or after close())
\* goes out as an HTTP request.
C23_HttpWhenNoChannel ==
    /\ [](Cardinality(OpenChannels) <= 1)
    /\ [][\A k \in Calls :
             (NoChannelOpen /\ cli.call[k].pc = "idle" /\ cli'.call[k].pc # "idle")
                 => cli'.call[k].pc = "http"]_vars

-----------------------------------------------------------------------------
(* Properties of construction and life cycle *)

IndicatorSet(env) == env.remote # "unset" \/ env.port # "unset"

C19_TransportFixed ==
    /\ [](srv.transport \in Transports)
    /\ [][srv'.transport = srv.transport]_vars

\* a server built with Auto has been started, has answered a health query
\* and a request, and its environment now would resolve to another transport
C19_Witness ==
    /\ srv.given.transport = Auto
    /\ srv.phase = "listening"
    /\ srv.health # NoHealth
    /\ issued = MaxReqs
    /\ DetectTransport(srv.given.platform, srv.env) # srv.transport

-----------------------------------------------------------------------------
(* Properties of the factory *)

\* C5: when the real driver was tried and did not come up (constructor or
\* initialize() raised, or initialize() returned False) and a simulator
\* exists, the class gets the simulator, never the failed driver.
C5_FailedDriverReplaced ==
    \A cls \in ClassSet :
        LET m == fac.made[cls]
        IN  (m.done /\ m.ctor /\ m.sim) =>
                (m.kind = "sim" \/ (m.kind = "real" /\ m.ready))

\* C6: create_all_interfaces never raises, and the map it returns omits
\* exactly the classes that have neither a real driver nor a simulator.
C6_PartialFailureTolerated ==
    /\ fac.pc # "raised"
    /\ fac.pc = "returned" =>
           \A cls \in ClassSet :
               (cls \notin Interfaces) <=> (~fac.made[cls].real /\ ~fac.made[cls].sim)

\* C7: in simulation mode every class with a simulator gets that simulator,
\* initialized, and the real driver is neither constructed nor initialized.
C7_SimulationModeReady ==
    \A cls \in ClassSet :
        LET m == fac.made[cls]
        IN  (fac.useSim /\ m.done /\ m.sim) =>
                (m.kind = "sim" /\ m.ready /\ ~m.ctor /\ ~m.init)

\* C8: without simulation mode, a class whose real driver exists gets a
\* simulator or dummy only after the real driver was tried.
C8_RealDriverTriedFirst ==
    \A cls \in ClassSet :
        LET m == fac.made[cls]
        IN  (~fac.useSim /\ m.done /\ m.real /\ m.kind \in {"sim", "dummy"}) => m.ctor

-----------------------------------------------------------------------------
(* TLS bootstrap: claims *)

\* the context checks the peer's name and its certificate chain
Verifying(ctx) == ctx.check_hostname /\ ctx.verify_mode = "CERT_REQUIRED"

\* C21, as stated: while EDPM_DEV is absent, the server's context and the
\* client's context both verify hostname and CA
C21_BothContextsVerify ==
    ~Truthy(tlsb.dev) =>
        /\ tlsb.ssl_context.made => Verifying(tlsb.ssl_context)
        /\ tlsb.client.ssl_context.made => Verifying(tlsb.client.ssl_context)

\* C21, amended: while EDPM_DEV is absent no context is relaxed: the
\* client's context verifies hostname and CA, and the server's context has
\* the settings the library gives a context of its purpose (which verifies
\* no peer, with or without the flag)
C21_RelaxedOnlyByFlag ==
    ~Truthy(tlsb.dev) =>
        /\ tlsb.client.ssl_context.made => Verifying(tlsb.client.ssl_context)
        /\ tlsb.ssl_context.made =>
              /\ tlsb.ssl_context.check_hostname
                    = CreateDefaultContext(tlsb.ssl_context.purpose).check_hostname
              /\ tlsb.ssl_context.verify_mode
                    = CreateDefaultContext(tlsb.ssl_context.purpose).verify_mode

\* without the flag, a TLS server listens and a TLS client has its context
C21_Witness ==
    /\ tlsb.dev = "unset"
    /\ tlsb.listener = "tls"
    /\ tlsb.client.ssl_context.made

\* C22: generate_certificates runs only when the certificate or the key is
\* missing, at most once, and a TLS listener opens only with both files in
\* place and loaded into its context
C22_BootstrapOrdering ==
    /\ [](tlsb.listener = "tls" =>
             tlsb.ssl_context.loaded /\ tlsb.cert /\ tlsb.key)
    /\ [][tlsb'.generated # tlsb.generated =>
             (~tlsb.cert \/ ~tlsb.key) /\ tlsb.generated = 0]_vars

\* a pair was generated because a file was missing, and the listener is open
C22_Witness ==
    /\ tlsb.listener = "tls"
    /\ tlsb.generated = 1

\* C37: a started server has a plaintext network listener only if the
\* caller disabled TLS explicitly; a server resolved to Local that was not
\* told so has none.
C37_PlaintextOnlyWhenTlsDisabled ==
    (srv.phase = "listening" /\ srv.listener = "plain") => srv.given.tls = "off"

\* C36: the registry holds one entry for every open persistent-channel
\* connection and none for a closed one.
C36_RegistryMatchesOpenConnections ==
    /\ \A c \in 1..NumClients :
          tlsb.clients[c].state = "open"
              <=> \E k \in DOMAIN tlsb.connections : tlsb.connections[k] = c
    /\ Cardinality(DOMAIN tlsb.connections)
          = Cardinality({c \in 1..NumClients : tlsb.clients[c].state = "open"})

\* C38: after construction the effective configuration has every default
\* key the caller did not supply, and neither TLS setup nor start_server
\* misses a key it reads.
C38_ConfigOverridesDefaults ==
    /\ tlsb.pc \notin {"idle", "new"} =>
          {"host", "port", "cert_dir", "ipc_path", "timeout"} \subseteq tlsb.config
    /\ tlsb.error # "KeyError"

-----------------------------------------------------------------------------
(* Simulators: claims *)

\* a read that directly follows a successful write to the same device and
\* register and asks for as many bytes as were written
ReadsBackWrite ==
    /\ sim.i2c.last.op = "write" /\ sim.i2c.last.ok
    /\ sim'.i2c.last.op = "read"
    /\ sim'.i2c.last.device = sim.i2c.last.device
    /\ sim'.i2c.last.register = sim.i2c.last.register
    /\ sim'.i2c.last.length = Len(sim.i2c.last.data)

\* C24: a read of the register just written, of the length written, returns
\* exactly the bytes written.
C24_WriteThenRead ==
    [][ReadsBackWrite => sim'.i2c.last.data = sim.i2c.last.data]_vars

\* a read has just been made
UartReadStep == sim'.uart.ops # sim.uart.ops /\ sim'.uart.last.op = "read"

\* C25: a read of length n returns the oldest unread bytes of its port, at
\* most n of them, in the order they were written, and removes exactly those
\* from the port's buffer.
C25_UartFifo ==
    [][UartReadStep =>
          LET port == sim'.uart.last.port
              unread == Buffer(sim.uart, port)
              n == sim'.uart.last.length
          IN  /\ sim'.uart.last.data = Slice(unread, 0, n)
              /\ Buffer(sim'.uart, port) = Slice(unread, n, Len(unread))]_vars

\* C29: no port's buffer is ever longer than 4096 bytes, and a write that
\* would make it longer keeps the newest 4096 bytes in their order.
C29_UartBounded ==
    /\ [](\A port \in Ports : Len(Buffer(sim.uart, port)) <= Capacity)
    /\ [][(sim'.uart.last.op = "write" /\ sim'.uart.last.ok /\ sim'.uart.ops # sim.uart.ops) =>
             LET port == sim'.uart.last.port
                 all == Buffer(sim.uart, port) \o sim'.uart.last.data
             IN  Buffer(sim'.uart, port)
                    = Slice(all, IF Len(all) > Capacity THEN Len(all) - Capacity ELSE 0,
                            Len(all))]_vars

\* C30: no cleanup() call raises, whatever the state of the object: before
\* initialize, after it, and after an earlier cleanup().
C30_CleanupNeverThrows ==
    \A i \in 1..Len(sim.iface.outcomes) : sim.iface.outcomes[i] = "returned"

\* initialize() is called on the object directly after an initialize() that
\* succeeded
SecondInitialize(before, after) ==
    /\ Len(before.inits) >= 1
    /\ before.inits[Len(before.inits)]
    /\ Len(after.inits) = Len(before.inits) + 1

GpioGetStep == sim'.gpio.last.op = "get" /\ sim'.gpio # sim.gpio

\* C33: get on a pin returns the value of the most recent set of that pin,
\* and 0 or 1 for a pin never written.
C33_GetReturnsLastSet ==
    [][GpioGetStep =>
          LET pin == sim'.gpio.last.pin
          IN  IF pin \in DOMAIN sim.gpio.sets
              THEN sim'.gpio.last.value = sim.gpio.sets[pin]
              ELSE sim'.gpio.last.value \in {0, 1}]_vars

\* a pin was set to 0, then to 1, and read; the other pin was not written
C33_Witness ==
    /\ sim.gpio.last = [op |-> "get", pin |-> 17, value |-> 1, raised |-> FALSE]
    /\ DOMAIN sim.gpio.sets = {17}
    /\ 5 \in DOMAIN sim.gpio.modes

UsbStep(op) ==
    /\ sim'.iface # sim.iface
    /\ sim'.iface.last.op = op
    /\ sim.iface.is_initialized

\* the device is connected before the step
UsbConnected(device) ==
    sim.iface.connected_devices.some /\ device \in sim.iface.connected_devices.v

\* C34: connect succeeds exactly for the devices of the roster; receive on a
\* connected device returns the oldest bytes sent to it, in the order sent;
\* send or receive on a device that is not connected is rejected and leaves
\* every buffer unchanged.
C34_UsbConnectAndFifo ==
    [][LET device == sim'.iface.last.device
           unread == Buffer([buffers |-> sim.iface.device_buffers], device)
       IN  /\ UsbStep("connect") =>
                /\ ~sim'.iface.last.raised
                /\ sim'.iface.last.value = (device \in {"04B4:6500", "046D:C077", "0781:5567"})
           /\ (UsbStep("receive") /\ UsbConnected(device)) =>
                /\ ~sim'.iface.last.raised
                /\ \E n \in 0..Len(unread) :
                      /\ sim'.iface.last.data = Slice(unread, 0, n)
                      /\ Buffer([buffers |-> sim'.iface.device_buffers], device)
                            = Slice(unread, n, Len(unread))
           /\ ((UsbStep("send") \/ UsbStep("receive")) /\ ~UsbConnected(device)) =>
                /\ ~sim'.iface.last.raised
                /\ ~sim'.iface.last.value
                /\ sim'.iface.last.data = <<>>
                /\ sim'.iface.device_buffers = sim.iface.device_buffers]_vars

\* C35: an operation on a simulator that is not initialized (never was, or
\* was cleaned up) returns its failure value, raises nothing and leaves what
\* the simulator stores as it was.
C35_RejectedWhenNotInitialized ==
    [][/\ (sim'.i2c # sim.i2c /\ sim'.i2c.last.op \in {"read", "write"}
              /\ ~sim.i2c.is_initialized) =>
            /\ ~sim'.i2c.last.ok
            /\ sim'.i2c.last.op = "read" => sim'.i2c.last.data = <<>>
            /\ sim'.i2c.memory = sim.i2c.memory
       /\ (sim'.uart.ops # sim.uart.ops /\ ~sim.uart.is_initialized) =>
            /\ ~sim'.uart.last.ok
            /\ sim'.uart.last.op = "read" => sim'.uart.last.data = <<>>
            /\ sim'.uart.buffers = sim.uart.buffers
       /\ (sim'.gpio # sim.gpio /\ sim'.gpio.last.op \in {"set", "get", "configure"}
              /\ ~sim.gpio.initialized) =>
            /\ ~sim'.gpio.last.raised
            /\ sim'.gpio.pins = sim.gpio.pins
            /\ sim'.gpio.modes = sim.gpio.modes]_vars

\* C39: set_pin succeeds on every pin that configure_pin did not make an
\* input, whatever was read before, and a set_pin that is rejected leaves
\* the stored values as they were.
C39_SetSucceedsUnlessInput ==
    [][(sim'.gpio # sim.gpio /\ sim'.gpio.last.op = "set") =>
          /\ sim'.gpio.last.pin \notin sim.gpio.inputs => ~sim'.gpio.last.raised
          /\ sim'.gpio.last.raised => sim'.gpio.pins = sim.gpio.pins]_vars

-----------------------------------------------------------------------------
(* Envelopes: claims *)

\* what the claim asks of one envelope, given the arguments it was built from
FilledAsClaimed(m, given) ==
    /\ m.params.some
    /\ m.params.v = (IF given.params.some THEN given.params.v ELSE <<>>)
    /\ m.id.some
    /\ IF given.id.some THEN m.id.v = given.id.v
       ELSE /\ Len(m.id.v) > 0
            /\ \A i \in 1..Len(m.id.v) : m.id.v[i] \in (48..57) \cup (97..102)
    /\ m.timestamp.some
    /\ IF given.timestamp.some THEN m.timestamp.v = given.timestamp.v
       ELSE m.timestamp.v \in Nat

\* C26: an envelope built without params, id or timestamp has params an
\* empty map, id a generated non-empty string and timestamp a number; what
\* the caller gave is kept.
C26_DefaultsFilled ==
    /\ msgs.last.made => FilledAsClaimed(msgs.last.msg, msgs.last.given)
    /\ msgs.prev.made => FilledAsClaimed(msgs.prev.msg, msgs.prev.given)

\* an envelope built with nothing but action and target, after one built
\* with all its fields
C26_Witness ==
    /\ msgs.last.made /\ msgs.prev.made
    /\ ~msgs.last.given.params.some /\ ~msgs.last.given.id.some
    /\ ~msgs.last.given.timestamp.some
    /\ msgs.prev.given.params.some /\ msgs.prev.given.id.some
    /\ msgs.prev.given.timestamp.some

\* C27: from_json(to_json(m)) has the action, target, params, id and
\* timestamp of m.
C27_RoundTrip ==
    msgs.rt.done => msgs.rt.ok /\ msgs.rt.msg = msgs.last.msg

RECURSIVE LexLeq(_, _)
\* a <= b for Python strings: by code point, a prefix first
LexLeq(a, b) ==
    IF Len(a) = 0 THEN TRUE
    ELSE IF Len(b) = 0 THEN FALSE
    ELSE IF Head(a) # Head(b) THEN Head(a) < Head(b)
    ELSE LexLeq(Tail(a), Tail(b))

\* C28: of two envelopes with generated ids, the one built earlier has the
\* id that is lexicographically smaller or equal.
C28_IdsOrdered ==
    (/\ msgs.prev.made /\ msgs.last.made
     /\ ~msgs.prev.given.id.some /\ ~msgs.last.given.id.some)
        => LexLeq(msgs.prev.msg.id.v, msgs.last.msg.id.v)

=============================================================================
